---- MODULE Spec2Model ----
(***************************************************************************)
(* Verification model of the godx storage engine.                          *)
(*                                                                         *)
(* Part I  : the Merkle root cache of a contract                           *)
(*           (storage/storageclient/contractset/merkleroot.go).            *)
(* Part II : the storage manager (sector add/delete, folder selection,     *)
(*           write-ahead log and recovery at Start).                       *)
(* Part III: VerifyRevision of the storage host, the health of a segment   *)
(*           of a DxFile, the FileSet of the storage client, and the       *)
(*           upload negotiation of the storage host.                       *)
(*                                                                         *)
(* Hashes are symbolic: a leaf hash is the 1-tuple <<i>>, the hash of two  *)
(* children is the 2-tuple <<left, right>>, so that two roots are equal    *)
(* exactly when they combine the same leaves in the same shape (a          *)
(* collision-free hash).                                                   *)
(***************************************************************************)
EXTENDS Integers, Sequences, FiniteSets, TLC

VARIABLES
    mr,         \* the merkleRoots object: cachedSubTrees, uncachedRoots, numMerkleRoots
    mrStage,    \* "none" (not constructed), "ready", "halted" (log.Crit was called)
    dbRoots,    \* the roots persisted in the contract set database for mr.id
    preview,    \* the result of the last newMerkleRootPreview call
    mrLast      \* the last call made on the cache: [op, arg, err]

mrVars == <<mr, mrStage, dbRoots, preview, mrLast>>

VARIABLES
    smState,     \* "running", "down" (the process terminated), "starting" (inside Start)
    smLock,      \* storageManager.lock: the writer, the readers, the waiting writers
    folders,     \* folderManager.sfs: the in-memory storage folders and their locks
    dbFolders,   \* the folder records of the database
    dbSectors,   \* the sector records of the database: folder, index, count
    extent,      \* the data files of the folders: the content of every slot
    wal,         \* the transactions of the write-ahead log that are not released
    sectorLocks, \* sectorLocks: the holder of the lock of every sector id
    fmLock,      \* folderManager.lock: the writer and the readers
    tm,          \* storageManager.tm: the threads added and not yet done
    th,          \* the callers: position and locals of each thread
    recTodo,     \* Start: the recovered transactions still to process, oldest first
    recRunning,  \* Start: the recovered transactions whose goroutine is running
    hist         \* history: net successful adds minus deletes per id, failures seen

smVars == <<smState, smLock, folders, dbFolders, dbSectors, extent, wal, sectorLocks,
            fmLock, tm, th, recTodo, recRunning, hist>>

VARIABLES
    revision,    \* VerifyRevision: the values of a revision and the verdict
    segment,     \* segmentHealth: the sectors of a segment and the score
    fileSet,     \* FileSet: filesMap, the entries, the handles given out, the disk
    upload       \* UploadHandler: the stored storage responsibility and one run

clientVars == <<revision, segment, fileSet, upload>>

vars == <<mrVars, smVars, clientVars>>

(***************************************************************************)
(* Bounds of the model.                                                    *)
(***************************************************************************)
\* Height of a cached subtree above the sector roots; the cache folds
\* merkleRootsPerCache = 2^merkleRootsCacheHeight roots. Scaled down.
merkleRootsCacheHeight == 1
\* Height of the Merkle tree of one sector's data (cancels out in the cache).
sectorHeight == 2
\* Number of distinct leaf hashes.
NumHashes == 2
\* Longest list of roots the database holds.
MaxLeaves == 5
\* Number of folder paths the callers use.
NumFolders == 3
\* Largest number of sectors of a folder.
MaxCap == 2
\* Number of distinct sector ids.
NumIds == 3
\* Number of concurrent callers.
NumThreads == 2
\* Largest reference count of a sector.
MaxRef == 2
\* retryTimes passed to selectFolderToAddWithRetry.
RetryTimes == 2
\* Number of times the process terminates.
MaxCrashes == 1
\* Width in bits of the signed integer big.Int.Int64 returns. Scaled down.
IntBits == 3
\* Largest exchange the host expects.
MaxExchange == 2
\* Largest number of sectors of a segment.
MaxSectors == 6
\* Number of dxPaths the callers of the FileSet use.
NumPaths == 2
\* Number of fileSetEntry objects created in a behaviour.
MaxEntries == 3
\* Number of thread ids drawn in a behaviour.
MaxThreadIDs == 4
\* Largest number of actions of an upload request.
MaxActions == 2
\* Largest number of revisions of a storage responsibility.
MaxRevisions == 3

\* Smallest and largest number of sectors of a folder. Scaled down.
minSectorsPerFolder == 1

maxSectorsPerFolder == MaxCap

\* Largest number of registered folders. Scaled down: one path more than the
\* folders that can be registered.
maxNumFolders == NumFolders - 1

RECURSIVE Pow2(_)
Pow2(n) == IF n = 0 THEN 1 ELSE 2 * Pow2(n - 1)

merkleRootsPerCache == Pow2(merkleRootsCacheHeight)

Hashes == {<<i>> : i \in 1..NumHashes}

\* common.Hash{}: the zero hash
EmptyHash == <<0>>

SeqsUpTo(S, n) == UNION {[1..k -> S] : k \in 0..n}

(***************************************************************************)
(* merkle.CachedTree: a stack of complete subtrees, the smallest last.     *)
(***************************************************************************)
NewCachedTree(height) == [cachedNodeHeight |-> height, stack |-> <<>>]

RECURSIVE joinAllSubTrees(_)
joinAllSubTrees(stack) ==
    LET n == Len(stack) IN
    IF n >= 2 /\ stack[n].height = stack[n - 1].height
    THEN joinAllSubTrees(Append(SubSeq(stack, 1, n - 2),
                                [height |-> stack[n].height + 1,
                                 sum |-> <<stack[n - 1].sum, stack[n].sum>>]))
    ELSE stack

\* PushSubTree(height, sum): a subtree of the given absolute height; an error
\* when it is larger than the smallest subtree already in the tree
ctPushSubTree(ct, height, sum) ==
    LET h == height - ct.cachedNodeHeight
        n == Len(ct.stack)
    IN IF h < 0 \/ (n > 0 /\ h > ct.stack[n].height)
       THEN [ct |-> ct, err |-> TRUE]
       ELSE [ct |-> [ct EXCEPT !.stack =
                        joinAllSubTrees(Append(@, [height |-> h, sum |-> sum]))],
             err |-> FALSE]

\* Push(sum): one cached node (a sector root)
ctPush(ct, sum) ==
    [ct EXCEPT !.stack = joinAllSubTrees(Append(@, [height |-> 0, sum |-> sum]))]

RECURSIVE foldRoot(_, _, _)
foldRoot(stack, i, cur) ==
    IF i = 0 THEN cur ELSE foldRoot(stack, i - 1, <<stack[i].sum, cur>>)

\* Root(): the subtrees combined from the smallest to the largest
ctRoot(ct) ==
    LET n == Len(ct.stack) IN
    IF n = 0 THEN EmptyHash ELSE foldRoot(ct.stack, n - 1, ct.stack[n].sum)

RECURSIVE ctPushAll(_, _, _)
ctPushAll(ct, roots, i) ==
    IF i > Len(roots) THEN ct ELSE ctPushAll(ctPush(ct, roots[i]), roots, i + 1)

\* merkle.CachedTreeRoot(roots, height)
CachedTreeRoot(roots, height) == ctRoot(ctPushAll(NewCachedTree(height), roots, 1))

(***************************************************************************)
(* The Merkle root of a list of leaves computed from scratch: the left     *)
(* subtree takes the largest power of two smaller than the leaf count.     *)
(***************************************************************************)
RECURSIVE LargestPow2Below(_, _)
LargestPow2Below(n, k) == IF 2 * k < n THEN LargestPow2Below(n, 2 * k) ELSE k

RECURSIVE MerkleRootFromScratch(_)
MerkleRootFromScratch(leaves) ==
    LET n == Len(leaves) IN
    IF n = 0 THEN EmptyHash
    ELSE IF n = 1 THEN leaves[1]
    ELSE LET k == LargestPow2Below(n, 1) IN
         <<MerkleRootFromScratch(SubSeq(leaves, 1, k)),
           MerkleRootFromScratch(SubSeq(leaves, k + 1, n))>>

(***************************************************************************)
(* Part I: merkleRoots                                                     *)
(***************************************************************************)
newMerkleRoots ==
    [cachedSubTrees |-> <<>>, uncachedRoots |-> <<>>, numMerkleRoots |-> 0]

\* Mutant: the height of the cached subtree leaves out the sector height.
newCachedSubTree_heightWithoutSector(roots) ==
    [height |-> merkleRootsCacheHeight,
     sum |-> CachedTreeRoot(roots, sectorHeight)]

\* Called only with merkleRootsPerCache roots (it halts through log.Crit otherwise).
newCachedSubTree(roots) ==
    [height |-> merkleRootsCacheHeight + sectorHeight,
     sum |-> CachedTreeRoot(roots, sectorHeight)]

RECURSIVE appendRootMemoryFrom(_, _, _)
appendRootMemoryFrom(m, roots, i) ==
    IF i > Len(roots) THEN m
    ELSE LET u == Append(m.uncachedRoots, roots[i])
             m1 == IF Len(u) = merkleRootsPerCache
                   THEN [m EXCEPT !.cachedSubTrees = Append(@, newCachedSubTree(u)),
                                  !.uncachedRoots = <<>>]
                   ELSE [m EXCEPT !.uncachedRoots = u]
         IN appendRootMemoryFrom(m1, roots, i + 1)

\* Mutant: the overflow list is not cleared after it is folded.
RECURSIVE appendRootMemoryNoClearFrom(_, _, _)
appendRootMemoryNoClearFrom(m, roots, i) ==
    IF i > Len(roots) THEN m
    ELSE LET u == Append(m.uncachedRoots, roots[i])
             m1 == IF Len(u) = merkleRootsPerCache
                   THEN [m EXCEPT !.cachedSubTrees = Append(@, newCachedSubTree(u)),
                                  !.uncachedRoots = u]
                   ELSE [m EXCEPT !.uncachedRoots = u]
         IN appendRootMemoryNoClearFrom(m1, roots, i + 1)

appendRootMemory_noClear(m, roots) == appendRootMemoryNoClearFrom(m, roots, 1)

\* Mutant: a new cached subtree is put in front of the existing ones.
RECURSIVE appendRootMemoryPrependFrom(_, _, _)
appendRootMemoryPrependFrom(m, roots, i) ==
    IF i > Len(roots) THEN m
    ELSE LET u == Append(m.uncachedRoots, roots[i])
             m1 == IF Len(u) = merkleRootsPerCache
                   THEN [m EXCEPT !.cachedSubTrees = <<newCachedSubTree(u)>> \o @,
                                  !.uncachedRoots = <<>>]
                   ELSE [m EXCEPT !.uncachedRoots = u]
         IN appendRootMemoryPrependFrom(m1, roots, i + 1)

appendRootMemory_prepend(m, roots) == appendRootMemoryPrependFrom(m, roots, 1)

appendRootMemory(m, roots) == appendRootMemoryFrom(m, roots, 1)

\* Mutant: the loaded roots are kept as overflow leaves and never folded.
loadMerkleRoots_noFold(roots) ==
    [newMerkleRoots EXCEPT !.uncachedRoots = roots, !.numMerkleRoots = Len(roots)]

\* Mutant: the leaf count is not set after loading.
loadMerkleRoots_noCount(roots) == appendRootMemory(newMerkleRoots, roots)

loadMerkleRoots(roots) ==
    [appendRootMemory(newMerkleRoots, roots) EXCEPT !.numMerkleRoots = Len(roots)]

\* db.StoreSingleRoot(id, root): the root is appended to the persisted list,
\* or the store fails and the list is unchanged
StoreSingleRoot(db, root, storeOk) ==
    IF storeOk THEN [db |-> Append(db, root), err |-> FALSE]
    ELSE [db |-> db, err |-> TRUE]

\* Mutant: the root is added to the memory before it is stored.
push_memoryFirst(m, db, root, storeOk) ==
    IF Len(m.uncachedRoots) = merkleRootsPerCache
    THEN [mr |-> m, db |-> db, err |-> FALSE, crit |-> TRUE]
    ELSE LET st == StoreSingleRoot(db, root, storeOk)
             m1 == [appendRootMemory(m, <<root>>) EXCEPT !.numMerkleRoots = @ + 1]
         IN [mr |-> m1, db |-> st.db, err |-> st.err, crit |-> FALSE]

push(m, db, root, storeOk) ==
    IF Len(m.uncachedRoots) = merkleRootsPerCache
    THEN [mr |-> m, db |-> db, err |-> FALSE, crit |-> TRUE]
    ELSE LET st == StoreSingleRoot(db, root, storeOk) IN
         IF st.err
         THEN [mr |-> m, db |-> st.db, err |-> TRUE, crit |-> FALSE]
         ELSE [mr |-> [appendRootMemory(m, <<root>>) EXCEPT !.numMerkleRoots = @ + 1],
               db |-> st.db, err |-> FALSE, crit |-> FALSE]

RECURSIVE pushSubTrees(_, _, _)
pushSubTrees(ct, subs, i) ==
    IF i > Len(subs) THEN [ct |-> ct, err |-> FALSE]
    ELSE LET r == ctPushSubTree(ct, subs[i].height, subs[i].sum) IN
         IF r.err THEN r ELSE pushSubTrees(r.ct, subs, i + 1)

\* Mutant: the overflow roots are pushed before the cached subtrees.
newMerkleRootPreview_uncachedFirst(m, newRoot) ==
    LET r == pushSubTrees(ctPushAll(NewCachedTree(sectorHeight), m.uncachedRoots, 1),
                          m.cachedSubTrees, 1) IN
    IF r.err
    THEN [mr |-> m, mroot |-> EmptyHash, err |-> TRUE]
    ELSE [mr |-> m, mroot |-> ctRoot(ctPush(r.ct, newRoot)), err |-> FALSE]

\* Mutant: the preview keeps the new root in the overflow list.
newMerkleRootPreview_keepsRoot(m, newRoot) ==
    LET r == pushSubTrees(NewCachedTree(sectorHeight), m.cachedSubTrees, 1) IN
    IF r.err
    THEN [mr |-> m, mroot |-> EmptyHash, err |-> TRUE]
    ELSE [mr |-> [m EXCEPT !.uncachedRoots = Append(@, newRoot)],
          mroot |-> ctRoot(ctPush(ctPushAll(r.ct, m.uncachedRoots, 1), newRoot)),
          err |-> FALSE]

newMerkleRootPreview(m, newRoot) ==
    LET r == pushSubTrees(NewCachedTree(sectorHeight), m.cachedSubTrees, 1) IN
    IF r.err
    THEN [mr |-> m, mroot |-> EmptyHash, err |-> TRUE]
    ELSE [mr |-> m,
          mroot |-> ctRoot(ctPush(ctPushAll(r.ct, m.uncachedRoots, 1), newRoot)),
          err |-> FALSE]

\* root(): the committed root over all appended leaves
\* mr.roots(): the roots fetched from the database; the program halts
\* (log.Crit) when their number is not the number kept in memory
roots(m, db, fetchOk) ==
    IF ~fetchOk THEN [roots |-> <<>>, err |-> TRUE, crit |-> FALSE]
    ELSE [roots |-> db, err |-> FALSE, crit |-> Len(db) # m.numMerkleRoots]

root(m) ==
    LET r == pushSubTrees(NewCachedTree(sectorHeight), m.cachedSubTrees, 1) IN
    IF r.err THEN EmptyHash ELSE ctRoot(ctPushAll(r.ct, m.uncachedRoots, 1))

NoPreview ==
    [valid |-> FALSE, h |-> EmptyHash, at |-> 0, mroot |-> EmptyHash, err |-> FALSE]


\* newMerkleRoots(db, id): the cache of a contract that has no root yet
NewMerkleRoots ==
    /\ mrStage = "none"
    /\ dbRoots = <<>>
    /\ mr' = newMerkleRoots
    /\ mrStage' = "ready"
    /\ mrLast' = [op |-> "new", arg |-> EmptyHash, err |-> FALSE]
    /\ UNCHANGED <<dbRoots, preview, smVars, clientVars>>

\* loadMerkleRoots(db, id, roots) with the roots persisted for the contract
LoadMerkleRoots ==
    /\ mrStage = "none"
    /\ mr' = loadMerkleRoots(dbRoots)
    /\ mrStage' = "ready"
    /\ mrLast' = [op |-> "load", arg |-> EmptyHash, err |-> FALSE]
    /\ UNCHANGED <<dbRoots, preview, smVars, clientVars>>

PushStep(r, h) ==
    /\ mr' = r.mr
    /\ dbRoots' = r.db
    /\ mrStage' = IF r.crit THEN "halted" ELSE "ready"
    /\ mrLast' = [op |-> "push", arg |-> h, err |-> r.err]
    /\ UNCHANGED <<preview, smVars, clientVars>>

\* push(root), the database storing the root
Push ==
    \E h \in Hashes :
        /\ mrStage = "ready"
        /\ Len(dbRoots) < MaxLeaves
        /\ PushStep(push(mr, dbRoots, h, TRUE), h)

\* push(root), the database failing to store the root
PushStoreFails ==
    \E h \in Hashes :
        /\ mrStage = "ready"
        /\ Len(dbRoots) < MaxLeaves
        /\ PushStep(push(mr, dbRoots, h, FALSE), h)

Preview ==
    \E h \in Hashes :
        /\ mrStage = "ready"
        /\ Len(dbRoots) < MaxLeaves
        /\ LET r == newMerkleRootPreview(mr, h) IN
            /\ mr' = r.mr
            /\ preview' = [valid |-> TRUE, h |-> h, at |-> mr.numMerkleRoots,
                           mroot |-> r.mroot, err |-> r.err]
            /\ mrLast' = [op |-> "preview", arg |-> h, err |-> r.err]
        /\ UNCHANGED <<mrStage, dbRoots, smVars, clientVars>>

(***************************************************************************)
(* Part II: the storage manager                                            *)
(***************************************************************************)
Folders == 1..NumFolders

Ids == 1..NumIds

Threads == 1..NumThreads

\* The holder of the locks taken by Start for a recovered transaction
RecoveryHolder == NumThreads + 1

\* The targets of prepareProcessReleaseUpdate
targetNormal == 0

targetRecoverCommitted == 1

targetRecoverUncommitted == 2

folderAvailable == "available"

folderUnavailable == "unavailable"

\* storageManager.lock, free
NoLock == [w |-> 0, r |-> {}, pending |-> {}]

\* No sector record
NoRec == [folder |-> 0, index |-> 0, count |-> 0]

\* No storage folder
NoFolder ==
    [exists |-> FALSE, numSectors |-> 0, storedSectors |-> 0, usage |-> {},
     status |-> folderAvailable, lock |-> 0]

\* A storage folder as the database stores it
FolderRecord(sf) ==
    [exists |-> sf.exists, numSectors |-> sf.numSectors,
     storedSectors |-> sf.storedSectors, usage |-> sf.usage, status |-> sf.status]

\* loadFolderManager: the folders of the database, unlocked
loadFolderManager(db) ==
    [f \in Folders |->
        [exists |-> db[f].exists, numSectors |-> db[f].numSectors,
         storedSectors |-> db[f].storedSectors, usage |-> db[f].usage,
         status |-> db[f].status, lock |-> 0]]

IdleThread ==
    [pc |-> "idle", op |-> "none", id |-> 0, scan |-> {}, tries |-> 0,
     target |-> 0, res |-> 0, folder |-> 0, index |-> 0, old |-> NoRec, physical |-> FALSE,
     undo |-> <<>>, err |-> "none"]

OffThread == [IdleThread EXCEPT !.pc = "off"]

Registered == {f \in Folders : folders[f].exists}

\* A TryLock that succeeds on a folder another caller holds
TryLock_always(sf) == TRUE

\* sf.lock.TryLock()
TryLock(sf) == sf.lock = 0

\* sf.freeSectorIndex(): the indexes it may yield; none when the folder is full
freeSectorIndexes(sf) == (0..(sf.numSectors - 1)) \ sf.usage

\* sf.freeSectorIndex() of folder f returns an error other than
\* errFolderAlreadyFull
freeSectorIndexFails(f) == f \in hist.faulty

\* An iteration that waits for the lock of a folder another caller holds
selectVisit_waitsForLock(sf, fails) ==
    IF ~TryLock(sf) THEN "wait"
    ELSE IF sf.status = folderUnavailable THEN "continue"
    ELSE IF fails THEN "error"
    ELSE IF freeSectorIndexes(sf) = {} THEN "continue"
    ELSE "return"

\* An iteration that does not look at the status of the folder
selectVisit_ignoresStatus(sf, fails) ==
    IF ~TryLock(sf) THEN "continue"
    ELSE IF fails THEN "error"
    ELSE IF freeSectorIndexes(sf) = {} THEN "continue"
    ELSE "return"

\* An iteration that skips the available folders instead of the unavailable
selectVisit_skipsAvailable(sf, fails) ==
    IF ~TryLock(sf) THEN "continue"
    ELSE IF sf.status = folderAvailable THEN "continue"
    ELSE IF fails THEN "error"
    ELSE IF freeSectorIndexes(sf) = {} THEN "continue"
    ELSE "return"

\* One iteration of the loop of selectFolderToAdd over fm.sfs; fails says
\* that sf.freeSectorIndex() returns an error other than errFolderAlreadyFull
selectVisit(sf, fails) ==
    IF ~TryLock(sf) THEN "continue"
    ELSE IF sf.status = folderUnavailable THEN "continue"
    ELSE IF fails THEN "error"
    ELSE IF freeSectorIndexes(sf) = {} THEN "continue"
    ELSE "return"

\* A loop that makes one pass more
retryExhausted_oneMore(i, retryTimes) == i = retryTimes + 1

\* The loop condition of selectFolderToAddWithRetry after i failed passes
retryExhausted(i, retryTimes) == i = retryTimes

\* The transaction an update records in the write-ahead log
Txn(t) ==
    [kind |-> th[t].op, id |-> th[t].id, folder |-> th[t].folder,
     index |-> th[t].index, physical |-> th[t].physical, prev |-> th[t].old,
     committed |-> FALSE]

\* The sector record a transaction writes
NewRec(x) ==
    IF x.kind = "add"
    THEN (IF x.physical THEN [folder |-> x.folder, index |-> x.index, count |-> 1]
          ELSE [x.prev EXCEPT !.count = @ + 1])
    ELSE (IF x.physical THEN NoRec ELSE [x.prev EXCEPT !.count = @ - 1])

\* The usage of the folder of a physical transaction once it is applied
AppliedFolder(sf, x) ==
    LET u == IF x.kind = "add" THEN sf.usage \cup {x.index} ELSE sf.usage \ {x.index}
    IN [sf EXCEPT !.usage = u, !.storedSectors = Cardinality(u)]

\* The usage of the folder of a physical transaction once it is reverted
RevertedFolder(sf, x) ==
    LET u == IF x.kind = "add" THEN sf.usage \ {x.index} ELSE sf.usage \cup {x.index}
    IN [sf EXCEPT !.usage = u, !.storedSectors = Cardinality(u)]

RemoveTxn(w, id) == SelectSeq(w, LAMBDA x : x.id # id)

InFlightAdds(id) ==
    Cardinality({t \in Threads :
        /\ th[t].op = "add" /\ th[t].id = id
        /\ th[t].pc \in {"rlock", "begin", "lookup", "select", "backoff", "intent",
                          "write", "meta"}})

(***************************************************************************)
(* AddSector and DeleteSector                                              *)
(***************************************************************************)
\* AddSector(sectorRoot, sectorData) is called
AddSector(t) ==
    \E id \in hist.ids :
        /\ smState = "running"
        /\ th[t].pc = "idle"
        /\ dbSectors[id].count + InFlightAdds(id) < MaxRef
        /\ th' = [th EXCEPT ![t] = [IdleThread EXCEPT !.pc = "rlock", !.op = "add", !.id = id]]
        /\ UNCHANGED <<mrVars, clientVars, tm, fmLock, smLock, smState, folders, dbFolders, dbSectors, extent, wal, sectorLocks,
                       recTodo, recRunning, hist>>

\* DeleteSector(sectorRoot) is called
DeleteSector(t) ==
    \E id \in hist.ids :
        /\ smState = "running"
        /\ th[t].pc = "idle"
        /\ th' = [th EXCEPT ![t] = [IdleThread EXCEPT !.pc = "rlock", !.op = "del", !.id = id]]
        /\ UNCHANGED <<mrVars, clientVars, tm, fmLock, smLock, smState, folders, dbFolders, dbSectors, extent, wal, sectorLocks,
                       recTodo, recRunning, hist>>

\* sm.lock.RLock(): blocks while a writer holds the lock or waits for it
RLock(t) ==
    /\ th[t].pc = "rlock"
    /\ smLock.w = 0
    /\ smLock.pending = {}
    /\ smLock' = [smLock EXCEPT !.r = @ \cup {t}]
    /\ th' = [th EXCEPT ![t].pc = IF th[t].op = "addfolder" THEN "addfolder" ELSE "begin"]
    /\ UNCHANGED <<mrVars, clientVars, tm, fmLock, smState, folders, dbFolders, dbSectors, extent, wal, sectorLocks,
                   recTodo, recRunning, hist>>

\* The sector lock of the id is taken (blocking)
LockSector(t) ==
    /\ th[t].pc = "begin"
    /\ sectorLocks[th[t].id] = 0
    /\ sectorLocks' = [sectorLocks EXCEPT ![th[t].id] = t]
    /\ th' = [th EXCEPT ![t].pc = "lookup"]
    /\ UNCHANGED <<mrVars, clientVars, tm, fmLock, smLock, smState, folders, dbFolders, dbSectors, extent, wal,
                   recTodo, recRunning, hist>>

\* A lookup that treats every add as the add of a new sector
LookupAdd_alwaysPhysical(t) ==
    /\ th[t].pc = "lookup" /\ th[t].op = "add"
    /\ th' = [th EXCEPT ![t] =
                 [@ EXCEPT !.pc = "select", !.old = dbSectors[th[t].id],
                           !.physical = TRUE, !.scan = Registered, !.tries = 0]]
    /\ UNCHANGED <<mrVars, clientVars, tm, fmLock, smLock, smState, folders, dbFolders, dbSectors, extent, wal, sectorLocks,
                   recTodo, recRunning, hist>>

\* The sector record is looked up: AddSector of a stored id is a virtual add,
\* of a new id a physical add that selects a folder
LookupAdd(t) ==
    /\ th[t].pc = "lookup" /\ th[t].op = "add"
    /\ LET rec == dbSectors[th[t].id] IN
        th' = [th EXCEPT ![t] =
                 IF rec.count > 0
                 THEN [@ EXCEPT !.pc = "intent", !.old = rec, !.physical = FALSE,
                                !.folder = rec.folder, !.index = rec.index]
                 ELSE [@ EXCEPT !.pc = "select", !.old = rec, !.physical = TRUE,
                                !.scan = Registered, !.tries = 0]]
    /\ IF dbSectors[th[t].id].count > 0 THEN UNCHANGED fmLock
       ELSE /\ fmLock.w = 0
            /\ fmLock' = [fmLock EXCEPT !.r = @ \cup {t}]
    /\ UNCHANGED <<mrVars, clientVars, tm, smLock, smState, folders, dbFolders, dbSectors, extent, wal, sectorLocks,
                   recTodo, recRunning, hist>>

\* The sector record is looked up: DeleteSector of an unknown id fails, of a
\* sector with other references is a virtual delete, else a physical delete
LookupDelete(t) ==
    /\ th[t].pc = "lookup" /\ th[t].op = "del"
    /\ LET rec == dbSectors[th[t].id] IN
        th' = [th EXCEPT ![t] =
                 IF rec.count = 0
                 THEN [@ EXCEPT !.pc = "release", !.err = "notfound"]
                 ELSE [@ EXCEPT !.pc = IF rec.count > 1 THEN "intent" ELSE "lockFolder",
                                !.old = rec, !.physical = (rec.count = 1),
                                !.folder = rec.folder, !.index = rec.index]]
    /\ UNCHANGED <<mrVars, clientVars, tm, fmLock, smLock, smState, folders, dbFolders, dbSectors, extent, wal, sectorLocks,
                   recTodo, recRunning, hist>>

\* folderManager.get: the folder of the sector is locked (blocking)
LockFolder(t) ==
    /\ th[t].pc = "lockFolder"
    /\ folders[th[t].folder].lock = 0
    /\ folders' = [folders EXCEPT ![th[t].folder].lock = t]
    /\ th' = [th EXCEPT ![t].pc = "intent"]
    /\ UNCHANGED <<mrVars, clientVars, tm, fmLock, smLock, smState, dbFolders, dbSectors, extent, wal, sectorLocks,
                   recTodo, recRunning, hist>>

\* selectFolderToAdd: one iteration of the loop over the folders, in any
\* order; the folder is returned locked, or skipped, or its error ends the pass
SelectFolderVisit(t) ==
    \E f \in th[t].scan :
        /\ th[t].pc = "select"
        /\ selectVisit(folders[f], freeSectorIndexFails(f)) \in {"return", "continue", "error"}
        /\ IF selectVisit(folders[f], freeSectorIndexFails(f)) = "return"
           THEN \E idx \in freeSectorIndexes(folders[f]) :
                   /\ folders' = [folders EXCEPT ![f].lock = t]
                   /\ th' = [th EXCEPT ![t].pc = "intent", ![t].scan = {},
                                       ![t].folder = f, ![t].index = idx]
           ELSE IF selectVisit(folders[f], freeSectorIndexFails(f)) = "error"
           THEN /\ th' = [th EXCEPT ![t].pc = "backoff", ![t].scan = {},
                                       ![t].err = "fault"]
                /\ UNCHANGED folders
           ELSE /\ th' = [th EXCEPT ![t].scan = @ \ {f}]
                /\ UNCHANGED folders
        /\ fmLock' = IF selectVisit(folders[f], freeSectorIndexFails(f)) = "continue"
                     THEN fmLock
                     ELSE [fmLock EXCEPT !.r = @ \ {t}]
        /\ UNCHANGED <<mrVars, clientVars, tm, smLock, smState, dbFolders, dbSectors, extent, wal, sectorLocks,
                       recTodo, recRunning, hist>>

\* A pass that fails without the deferred fm.lock.RUnlock()
SelectPassFails_keepsRLock(t) ==
    /\ th[t].pc = "select"
    /\ th[t].scan = {}
    /\ th' = [th EXCEPT ![t].pc = "backoff"]
    /\ UNCHANGED <<mrVars, clientVars, tm, fmLock, smLock, smState, folders, dbFolders, dbSectors,
                   extent, wal, sectorLocks, recTodo, recRunning, hist>>

\* selectFolderToAdd returns errAllFoldersFullOrUsed after the loop over the
\* folders; selectFolderToAddWithRetry waits
SelectPassFails(t) ==
    /\ th[t].pc = "select"
    /\ th[t].scan = {}
    /\ th' = [th EXCEPT ![t].pc = "backoff"]
    /\ fmLock' = [fmLock EXCEPT !.r = @ \ {t}]
    /\ UNCHANGED <<mrVars, clientVars, tm, smLock, smState, folders, dbFolders, dbSectors, extent, wal, sectorLocks,
                   recTodo, recRunning, hist>>

\* selectFolderToAddWithRetry: after the wait of 100 ms the loop makes the next
\* pass, or ends and returns the error of the last pass. AddSector passes
\* RetryTimes; a direct call passes its own retryTimes. The counter is
\* followed up to RetryTimes + 1.
SelectBackoff(t) ==
    /\ th[t].pc = "backoff"
    /\ th[t].tries <= RetryTimes
    /\ LET retryTimes == IF th[t].op = "select" THEN th[t].target ELSE RetryTimes
       IN /\ th' = [th EXCEPT ![t] =
                IF retryExhausted(@.tries + 1, retryTimes)
                THEN [@ EXCEPT !.pc = "release", !.tries = 0,
                               !.err = IF @ = "fault" THEN "fault" ELSE "full"]
                ELSE [@ EXCEPT !.pc = "select", !.tries = @ + 1, !.scan = Registered,
                               !.err = "none"]]
          /\ IF retryExhausted(th[t].tries + 1, retryTimes) THEN UNCHANGED fmLock
             ELSE /\ fmLock.w = 0
                  /\ fmLock' = [fmLock EXCEPT !.r = @ \cup {t}]
    /\ UNCHANGED <<mrVars, clientVars, tm, smLock, smState, folders, dbFolders, dbSectors, extent, wal, sectorLocks,
                   recTodo, recRunning, hist>>

\* Step (1): the intent is appended to the write-ahead log
RecordIntent(t) ==
    /\ th[t].pc = "intent"
    /\ wal' = Append(wal, Txn(t))
    /\ th' = [th EXCEPT ![t].pc = "write"]
    /\ UNCHANGED <<mrVars, clientVars, tm, fmLock, smLock, smState, folders, dbFolders, dbSectors, extent, sectorLocks,
                   recTodo, recRunning, hist>>

\* Step (2): the physical write to the data file; the transaction is committed
PhysicalWrite(t) ==
    /\ th[t].pc = "write"
    /\ extent' = IF th[t].op = "add" /\ th[t].physical
                 THEN [extent EXCEPT ![th[t].folder][th[t].index] = th[t].id]
                 ELSE extent
    /\ wal' = [i \in 1..Len(wal) |->
                 IF wal[i].id = th[t].id THEN [wal[i] EXCEPT !.committed = TRUE] ELSE wal[i]]
    /\ th' = [th EXCEPT ![t].pc = "meta"]
    /\ UNCHANGED <<mrVars, clientVars, tm, fmLock, smLock, smState, folders, dbFolders, dbSectors, sectorLocks,
                   recTodo, recRunning, hist>>

\* Step (3): the metadata update of the sector record and the folder
UpdateMetadata(t) ==
    /\ th[t].pc = "meta"
    /\ LET x == Txn(t) IN
        /\ dbSectors' = [dbSectors EXCEPT ![x.id] = NewRec(x)]
        /\ folders' = IF x.physical
                      THEN [folders EXCEPT ![x.folder] = AppliedFolder(@, x)]
                      ELSE folders
        /\ dbFolders' = IF x.physical
                        THEN [dbFolders EXCEPT ![x.folder] = AppliedFolder(@, x)]
                        ELSE dbFolders
        /\ extent' = IF x.physical /\ x.kind = "del"
                     THEN [extent EXCEPT ![x.folder][x.index] = 0]
                     ELSE extent
    /\ th' = [th EXCEPT ![t].pc = "complete"]
    /\ UNCHANGED <<mrVars, clientVars, tm, fmLock, smLock, smState, wal, sectorLocks, recTodo, recRunning, hist>>

\* Step (4): the transaction is marked complete and trimmed from the log
CompleteTxn(t) ==
    /\ th[t].pc = "complete"
    /\ wal' = RemoveTxn(wal, th[t].id)
    /\ th' = [th EXCEPT ![t].pc = "release"]
    /\ UNCHANGED <<mrVars, clientVars, tm, fmLock, smLock, smState, folders, dbFolders, dbSectors, extent, sectorLocks,
                   recTodo, recRunning, hist>>

\* The locks are released (the deferred sm.lock.RUnlock() last) and the call
\* returns
ReleaseLocks(t) ==
    /\ th[t].pc = "release"
    /\ sectorLocks' = [sectorLocks EXCEPT ![th[t].id] = 0]
    /\ folders' = [f \in Folders |->
                     IF folders[f].lock = t THEN [folders[f] EXCEPT !.lock = 0]
                     ELSE folders[f]]
    /\ hist' = [hist EXCEPT
                  !.net[th[t].id] = IF th[t].err # "none" THEN @
                                    ELSE IF th[t].op = "add" THEN @ + 1 ELSE @ - 1,
                  !.capFailed = @ \/ th[t].err = "full"]
    /\ smLock' = [smLock EXCEPT !.r = @ \ {t}]
    /\ th' = [th EXCEPT ![t].pc = "ret"]
    /\ UNCHANGED <<mrVars, clientVars, tm, fmLock, smState, dbFolders, dbSectors, extent, wal, recTodo, recRunning>>

\* The caller has the result
Return(t) ==
    /\ th[t].pc = "ret"
    /\ th' = [th EXCEPT ![t] = IdleThread]
    /\ UNCHANGED <<mrVars, clientVars, tm, fmLock, smLock, smState, folders, dbFolders, dbSectors, extent, wal, sectorLocks,
                   recTodo, recRunning, hist>>

(***************************************************************************)
(* ResizeFolder, DeleteFolder, Folders and AvailableSpace                  *)
(***************************************************************************)
RECURSIVE SumFree(_, _)
\* The free sectors of the folders of the set S
SumFree(sfs, S) ==
    IF S = {} THEN 0
    ELSE LET f == CHOOSE g \in S : TRUE
         IN (sfs[f].numSectors - sfs[f].storedSectors) + SumFree(sfs, S \ {f})

\* folderManager.validateShrink: TRUE when it returns no error
validateShrink(sfs, folderPath, targetNumSector) ==
    LET freeSectors ==
            SumFree(sfs, {f \in Folders : sfs[f].exists /\ f # folderPath})
              + targetNumSector
    IN ~(freeSectors < sfs[folderPath].storedSectors)

\* The sectors of folder f that a shrink to target sectors has to move
ToEvacuate(f, target) ==
    {id \in Ids : /\ dbSectors[id].count > 0
                  /\ dbSectors[id].folder = f
                  /\ dbSectors[id].index >= target}

\* The free slots an evacuated sector of folder f can move to
EvacuationSlots(f, target) ==
    {s \in Folders \X (0..(MaxCap - 1)) :
        /\ folders[s[1]].exists
        /\ s[2] \notin folders[s[1]].usage
        /\ IF s[1] = f THEN s[2] < target
           ELSE /\ folders[s[1]].status = folderAvailable
                /\ s[2] < folders[s[1]].numSectors}

\* The state a failed shrinkFolder restores: the folders, the sector records
\* and the data files as they are when the evacuation starts; the call keeps
\* it until it returns
UndoState == [folders |-> folders, dbSectors |-> dbSectors, extent |-> extent]

\* The call of thread t enters sm.lock.Lock()
WaitLock(t, op, f, n) ==
    /\ smLock' = [smLock EXCEPT !.pending = @ \cup {t}]
    /\ th' = [th EXCEPT ![t] = [IdleThread EXCEPT !.pc = "wlock", !.op = op,
                                                   !.folder = f, !.target = n]]

\* ResizeFolder(folderPath, size) is called: the size is checked first
ResizeFolder(t) ==
    \E f \in Folders : \E n \in 0..(maxSectorsPerFolder + 1) :
        /\ smState = "running"
        /\ th[t].pc = "idle"
        /\ t \in hist.struct
        /\ IF n > maxSectorsPerFolder \/ n < minSectorsPerFolder
           THEN /\ th' = [th EXCEPT ![t] =
                            [IdleThread EXCEPT !.pc = "ret", !.op = "resize",
                                               !.folder = f, !.target = n,
                                               !.err = "size"]]
                /\ UNCHANGED smLock
           ELSE WaitLock(t, "resize", f, n)
        /\ UNCHANGED <<mrVars, clientVars, tm, fmLock, smState, folders, dbFolders, dbSectors, extent, wal,
                       sectorLocks, recTodo, recRunning, hist>>

\* DeleteFolder(folderPath) is called
DeleteFolder(t) ==
    \E f \in Folders :
        /\ smState = "running"
        /\ th[t].pc = "idle"
        /\ t \in hist.struct
        /\ WaitLock(t, "delfolder", f, 0)
        /\ UNCHANGED <<mrVars, clientVars, tm, fmLock, smState, folders, dbFolders, dbSectors, extent, wal,
                       sectorLocks, recTodo, recRunning, hist>>

\* Folders() is called
FoldersCall(t) ==
    /\ smState = "running"
    /\ th[t].pc = "idle"
    /\ t \in hist.struct
    /\ WaitLock(t, "folders", 0, 0)
    /\ UNCHANGED <<mrVars, clientVars, tm, fmLock, smState, folders, dbFolders, dbSectors, extent, wal,
                   sectorLocks, recTodo, recRunning, hist>>

\* AvailableSpace() is called
AvailableSpace(t) ==
    /\ smState = "running"
    /\ th[t].pc = "idle"
    /\ t \in hist.struct
    /\ WaitLock(t, "space", 0, 0)
    /\ UNCHANGED <<mrVars, clientVars, tm, fmLock, smState, folders, dbFolders, dbSectors, extent, wal,
                   sectorLocks, recTodo, recRunning, hist>>

\* A Lock that takes the lock shared, as the sector operations do
Lock_asReader(t) ==
    /\ th[t].pc = "wlock"
    /\ smLock.w = 0
    /\ smLock' = [smLock EXCEPT !.r = @ \cup {t}, !.pending = @ \ {t}]
    /\ th' = [th EXCEPT ![t].pc = "crit"]
    /\ UNCHANGED <<mrVars, clientVars, tm, fmLock, smState, folders, dbFolders, dbSectors, extent, wal,
                   sectorLocks, recTodo, recRunning, hist>>

\* A Lock that does not wait for the readers
Lock_ignoresReaders(t) ==
    /\ th[t].pc = "wlock"
    /\ smLock.w = 0
    /\ smLock' = [smLock EXCEPT !.w = t, !.pending = @ \ {t}]
    /\ th' = [th EXCEPT ![t].pc = "crit"]
    /\ UNCHANGED <<mrVars, clientVars, tm, fmLock, smState, folders, dbFolders, dbSectors, extent, wal,
                   sectorLocks, recTodo, recRunning, hist>>

\* sm.lock.Lock(): blocks while a writer or a reader holds the lock
Lock(t) ==
    /\ th[t].pc = "wlock"
    /\ smLock.w = 0
    /\ smLock.r = {}
    /\ smLock' = [smLock EXCEPT !.w = t, !.pending = @ \ {t}]
    /\ th' = [th EXCEPT ![t].pc = "crit"]
    /\ UNCHANGED <<mrVars, clientVars, tm, fmLock, smState, folders, dbFolders, dbSectors, extent, wal,
                   sectorLocks, recTodo, recRunning, hist>>

\* A ResizeFolder that does not look the folder up
ResizeBody_noLookup(t) ==
    /\ th[t].pc = "crit" /\ th[t].op = "resize"
    /\ LET f == th[t].folder
           n == th[t].target
       IN IF n = folders[f].numSectors
          THEN /\ th' = [th EXCEPT ![t].pc = "wunlock"]
               /\ UNCHANGED <<folders, dbFolders>>
          ELSE IF n > folders[f].numSectors
          THEN /\ folders' = [folders EXCEPT ![f].numSectors = n]
               /\ dbFolders' = [dbFolders EXCEPT ![f].numSectors = n]
               /\ th' = [th EXCEPT ![t].pc = "wunlock"]
          ELSE /\ th' = [th EXCEPT ![t] =
                           IF validateShrink(folders, f, n)
                           THEN [@ EXCEPT !.pc = "evacuate", !.undo = UndoState]
                           ELSE [@ EXCEPT !.pc = "wunlock", !.err = "space"]]
               /\ UNCHANGED <<folders, dbFolders>>
    /\ UNCHANGED <<mrVars, clientVars, tm, fmLock, smLock, smState, dbSectors, extent, wal, sectorLocks,
                   recTodo, recRunning, hist>>

\* ResizeFolder under the lock: the folder is looked up and the resize is
\* dispatched; expandFolder grows the folder
ResizeBody(t) ==
    /\ th[t].pc = "crit" /\ th[t].op = "resize"
    /\ LET f == th[t].folder
           n == th[t].target
       IN IF ~folders[f].exists
          THEN /\ th' = [th EXCEPT ![t].pc = "wunlock", ![t].err = "notfound"]
               /\ UNCHANGED <<folders, dbFolders>>
          ELSE IF n = folders[f].numSectors
          THEN /\ th' = [th EXCEPT ![t].pc = "wunlock"]
               /\ UNCHANGED <<folders, dbFolders>>
          ELSE IF n > folders[f].numSectors
          THEN /\ folders' = [folders EXCEPT ![f].numSectors = n]
               /\ dbFolders' = [dbFolders EXCEPT ![f].numSectors = n]
               /\ th' = [th EXCEPT ![t].pc = "wunlock"]
          ELSE /\ th' = [th EXCEPT ![t] =
                           IF validateShrink(folders, f, n)
                           THEN [@ EXCEPT !.pc = "evacuate", !.undo = UndoState]
                           ELSE [@ EXCEPT !.pc = "wunlock", !.err = "space"]]
               /\ UNCHANGED <<folders, dbFolders>>
    /\ UNCHANGED <<mrVars, clientVars, tm, fmLock, smLock, smState, dbSectors, extent, wal, sectorLocks,
                   recTodo, recRunning, hist>>

\* DeleteFolder under the lock: the folder is looked up and shrunk to zero
DeleteFolderBody(t) ==
    /\ th[t].pc = "crit" /\ th[t].op = "delfolder"
    /\ LET f == th[t].folder IN
        th' = [th EXCEPT ![t] =
                 IF ~folders[f].exists
                 THEN [@ EXCEPT !.pc = "wunlock", !.err = "notfound"]
                 ELSE IF folders[f].numSectors = 0
                 THEN [@ EXCEPT !.pc = "wunlock"]
                 ELSE IF validateShrink(folders, f, 0)
                 THEN [@ EXCEPT !.pc = "evacuate", !.undo = UndoState]
                 ELSE [@ EXCEPT !.pc = "wunlock", !.err = "space"]]
    /\ UNCHANGED <<mrVars, clientVars, tm, fmLock, smLock, smState, folders, dbFolders, dbSectors, extent, wal,
                   sectorLocks, recTodo, recRunning, hist>>

\* shrinkFolder: one sector beyond the target is moved to a free slot, in one
\* transaction; the call counts the sectors it moved
EvacuateSector(t) ==
    /\ th[t].pc = "evacuate"
    /\ LET f == th[t].folder
           n == th[t].target
       IN \E id \in ToEvacuate(f, n) : \E s \in EvacuationSlots(f, n) :
            LET rec == dbSectors[id]
                moved(sfs) ==
                    [g \in Folders |->
                       LET u == (IF g = f THEN sfs[g].usage \ {rec.index}
                                 ELSE sfs[g].usage)
                                  \cup (IF g = s[1] THEN {s[2]} ELSE {})
                       IN [sfs[g] EXCEPT !.usage = u, !.storedSectors = Cardinality(u)]]
            IN /\ dbSectors' = [dbSectors EXCEPT ![id].folder = s[1], ![id].index = s[2]]
               /\ folders' = moved(folders)
               /\ dbFolders' = moved(dbFolders)
               /\ extent' = [g \in Folders |-> [i \in 0..(MaxCap - 1) |->
                               IF <<g, i>> = s THEN id
                               ELSE IF <<g, i>> = <<f, rec.index>> THEN 0
                               ELSE extent[g][i]]]
    /\ th' = [th EXCEPT ![t].res = @ + 1]
    /\ UNCHANGED <<mrVars, clientVars, tm, fmLock, smLock, smState, wal, sectorLocks, recTodo, recRunning, hist>>

\* shrinkFolder: a sector has to move and no folder has a free slot for it;
\* the sectors moved so far are moved back and the call fails
EvacuateFails(t) ==
    /\ th[t].pc = "evacuate"
    /\ ToEvacuate(th[t].folder, th[t].target) # {}
    /\ EvacuationSlots(th[t].folder, th[t].target) = {}
    /\ folders' = th[t].undo.folders
    /\ dbFolders' = [g \in Folders |-> FolderRecord(th[t].undo.folders[g])]
    /\ dbSectors' = th[t].undo.dbSectors
    /\ extent' = th[t].undo.extent
    /\ th' = [th EXCEPT ![t].pc = "wunlock", ![t].err = "full"]
    /\ UNCHANGED <<mrVars, clientVars, tm, fmLock, smLock, smState, wal, sectorLocks, recTodo, recRunning, hist>>

\* shrinkFolder: no sector is left beyond the target: the folder gets its new
\* size, zero sectors when DeleteFolder shrinks it
ShrinkFinish(t) ==
    /\ th[t].pc = "evacuate"
    /\ ToEvacuate(th[t].folder, th[t].target) = {}
    /\ LET f == th[t].folder IN
        /\ folders' = [folders EXCEPT ![f].numSectors = th[t].target]
        /\ dbFolders' = [dbFolders EXCEPT ![f].numSectors = th[t].target]
    /\ th' = [th EXCEPT ![t].pc = IF th[t].op = "delfolder" THEN "shrunk" ELSE "wunlock"]
    /\ UNCHANGED <<mrVars, clientVars, tm, fmLock, smLock, smState, dbSectors, extent, wal, sectorLocks,
                   recTodo, recRunning, hist>>

\* The outcomes of the steps of DeleteFolder after shrinkFolder: all succeed,
\* or db.deleteStorageFolder, dataFile.Close or os.Remove returns an error.
\* DeleteFolder after shrinkFolder returned no error: the folder is deleted
\* from the database and from the folder manager, its data file is closed and
\* removed; the first step that fails ends the call with its error
DeleteFolderRemove(t) ==
    \E failure \in {"none", "db", "close", "remove"} :
        /\ th[t].pc = "shrunk"
        /\ LET f == th[t].folder IN
            IF failure = "db"
            THEN UNCHANGED <<folders, dbFolders>>
            ELSE /\ dbFolders' = [dbFolders EXCEPT ![f] = FolderRecord(NoFolder)]
                 /\ folders' = [folders EXCEPT ![f] = NoFolder]
        /\ th' = [th EXCEPT ![t].pc = "wunlock",
                            ![t].err = IF failure = "none" THEN "none" ELSE "io"]
        /\ UNCHANGED <<mrVars, clientVars, tm, fmLock, smLock, smState, dbSectors, extent, wal, sectorLocks,
                       recTodo, recRunning, hist>>

\* The result of AvailableSpace: the free sectors of all folders
FreeSectors == SumFree(folders, Registered)

\* Folders and AvailableSpace under the lock: the folders are read
ReadFolders(t) ==
    /\ th[t].pc = "crit" /\ th[t].op \in {"folders", "space"}
    /\ th' = [th EXCEPT ![t].pc = "wunlock",
                        ![t].res = IF th[t].op = "space" THEN FreeSectors
                                   ELSE Cardinality(Registered)]
    /\ UNCHANGED <<mrVars, clientVars, tm, fmLock, smLock, smState, folders, dbFolders, dbSectors, extent, wal,
                   sectorLocks, recTodo, recRunning, hist>>

\* The deferred sm.lock.Unlock(): the call returns
Unlock(t) ==
    /\ th[t].pc = "wunlock"
    /\ smLock' = [smLock EXCEPT !.w = 0]
    /\ th' = [th EXCEPT ![t].pc = "ret", ![t].undo = <<>>]
    /\ UNCHANGED <<mrVars, clientVars, tm, fmLock, smState, folders, dbFolders, dbSectors, extent, wal,
                   sectorLocks, recTodo, recRunning, hist>>

(***************************************************************************)
(* AddStorageFolder                                                        *)
(***************************************************************************)
\* A new storage folder of numSectors sectors: available, empty, unlocked
NewFolder(numSectors) ==
    [exists |-> TRUE, numSectors |-> numSectors, storedSectors |-> 0, usage |-> {},
     status |-> folderAvailable, lock |-> 0]

\* folderManager.addFolder: err is assigned when the path exists, then the
\* folder is stored under the path and nil is returned
addFolder(sfs, path, sf) ==
    LET err == IF sfs[path].exists THEN "exists" ELSE "none"
    IN [sfs |-> [sfs EXCEPT ![path] = sf], err |-> "none"]

\* The checks of AddStorageFolder: the size, the path, the number of folders
validateAddStorageFolder(sfs, path, numSectors) ==
    IF numSectors < minSectorsPerFolder \/ numSectors > maxSectorsPerFolder THEN "size"
    ELSE IF sfs[path].exists THEN "exists"
    ELSE IF Cardinality({f \in Folders : sfs[f].exists}) >= maxNumFolders THEN "count"
    ELSE "none"

\* AddStorageFolder(path, size) is called
AddStorageFolder(t) ==
    \E f \in Folders : \E n \in 0..(maxSectorsPerFolder + 1) :
        /\ smState = "running"
        /\ th[t].pc = "idle"
        /\ t \in hist.struct
        /\ th' = [th EXCEPT ![t] = [IdleThread EXCEPT !.pc = "rlock", !.op = "addfolder",
                                                      !.folder = f, !.target = n]]
        /\ UNCHANGED <<mrVars, clientVars, tm, fmLock, smLock, smState, folders, dbFolders, dbSectors, extent, wal,
                       sectorLocks, recTodo, recRunning, hist>>

\* AddStorageFolder under the shared lock: the folder is validated, recorded
\* in the database and added to the folder manager; the lock is released
AddFolderBody(t) ==
    /\ th[t].pc = "addfolder"
    /\ LET f == th[t].folder
           n == th[t].target
           verdict == validateAddStorageFolder(folders, f, n)
           added == addFolder(folders, f, NewFolder(n))
       IN IF verdict # "none"
          THEN /\ th' = [th EXCEPT ![t].pc = "ret", ![t].err = verdict]
               /\ UNCHANGED <<folders, dbFolders>>
          ELSE /\ folders' = added.sfs
               /\ dbFolders' = [dbFolders EXCEPT ![f] = FolderRecord(NewFolder(n))]
               /\ th' = [th EXCEPT ![t].pc = "ret", ![t].err = added.err]
    /\ smLock' = [smLock EXCEPT !.r = @ \ {t}]
    /\ UNCHANGED <<mrVars, clientVars, tm, fmLock, smState, dbSectors, extent, wal, sectorLocks,
                   recTodo, recRunning, hist>>

\* folderManager.addFolder is called with a folder of any path
addFolderCall(t) ==
    \E f \in Folders : \E n \in minSectorsPerFolder..maxSectorsPerFolder :
        /\ th[t].pc = "idle"
        /\ LET added == addFolder(folders, f, NewFolder(n)) IN
            /\ folders' = added.sfs
            /\ th' = [th EXCEPT ![t] = [IdleThread EXCEPT !.pc = "ret", !.op = "addFolder",
                                                          !.folder = f, !.target = n,
                                                          !.err = added.err]]
        /\ UNCHANGED <<mrVars, clientVars, tm, fmLock, smLock, smState, dbFolders, dbSectors, extent, wal,
                       sectorLocks, recTodo, recRunning, hist>>

(***************************************************************************)
(* Termination of the process, Start and the recovery of the log           *)
(***************************************************************************)
\* The call of thread t has a transaction in the write-ahead log
InLog(t) == th[t].pc \in {"write", "meta", "complete"}

\* The process terminates: the memory is lost, the database, the data files
\* and the write-ahead log remain. After the restart one caller issues requests.
Crash ==
    /\ smState \in {"running", "starting"}
    /\ hist.crashes < MaxCrashes
    /\ smState' = "down"
    /\ smLock' = NoLock
    /\ folders' = [f \in Folders |-> NoFolder]
    /\ sectorLocks' = [id \in Ids |-> 0]
    /\ th' = [t \in Threads |-> IF t = 1 THEN IdleThread ELSE OffThread]
    /\ recTodo' = <<>>
    /\ recRunning' = {}
    /\ hist' = [hist EXCEPT
                  !.net = [id \in Ids |-> dbSectors[id].count],
                  !.capFailed = FALSE,
                  !.crashes = @ + 1,
                  !.crashed = [id \in Ids |->
                                 IF \E t \in Threads : th[t].id = id /\ InLog(t)
                                 THEN th[CHOOSE t \in Threads : th[t].id = id /\ InLog(t)].pc
                                 ELSE "none"],
                  !.lastRecovered = 0]
    /\ fmLock' = [w |-> 0, r |-> {}]
    /\ tm' = 0
    /\ UNCHANGED <<mrVars, clientVars, dbFolders, dbSectors, extent, wal>>

\* Start: the folders are loaded and the write-ahead log is opened
StartLoad ==
    /\ smState = "down"
    /\ smState' = "starting"
    /\ folders' = loadFolderManager(dbFolders)
    /\ recTodo' = wal
    /\ UNCHANGED <<mrVars, clientVars, tm, fmLock, smLock, dbFolders, dbSectors, extent, wal, sectorLocks, th, recRunning, hist>>

\* A log entry that cannot be decoded
CorruptTxn ==
    [kind |-> "corrupt", id |-> 0, folder |-> 0, index |-> 0, physical |-> FALSE,
     prev |-> NoRec, committed |-> FALSE]

\* decodeFromTransaction(txn) returns no error
decodable(x) == x.kind # "corrupt"

\* While the process is down an entry of the log file is damaged
CorruptEntry ==
    \E k \in 1..Len(wal) :
        /\ smState = "down"
        /\ decodable(wal[k])
        /\ wal' = [wal EXCEPT ![k] = CorruptTxn]
        /\ UNCHANGED <<mrVars, clientVars, tm, fmLock, smLock, smState, folders, dbFolders, dbSectors, extent,
                       sectorLocks, th, recTodo, recRunning, hist>>

\* A Start that returns an error at the first entry it cannot decode
StartSkipTxn_abort ==
    /\ smState = "starting"
    /\ recTodo # <<>>
    /\ ~decodable(recTodo[Len(recTodo)])
    /\ smState' = "down"
    /\ recTodo' = <<>>
    /\ UNCHANGED <<mrVars, clientVars, tm, fmLock, smLock, folders, dbFolders, dbSectors, extent, wal, sectorLocks,
                   th, recRunning, hist>>

\* Start: the iteration on a transaction that cannot be decoded: a warning is
\* logged and the loop continues
StartSkipTxn ==
    /\ smState = "starting"
    /\ recTodo # <<>>
    /\ ~decodable(recTodo[Len(recTodo)])
    /\ recTodo' = SubSeq(recTodo, 1, Len(recTodo) - 1)
    /\ UNCHANGED <<mrVars, clientVars, tm, fmLock, smLock, smState, folders, dbFolders, dbSectors, extent, wal,
                   sectorLocks, th, recRunning, hist>>

\* The resource of an update is free: its sector, and its folder when physical
ResourceFree(x) ==
    /\ sectorLocks[x.id] = 0
    /\ x.physical => folders[x.folder].lock = 0

\* A loop over the recovered transactions that starts with the oldest
StartProcessTxn_forwardOrder ==
    /\ smState = "starting"
    /\ recTodo # <<>>
    /\ LET x == recTodo[1] IN
        /\ decodable(x)
        /\ ResourceFree(x)
        /\ sectorLocks' = [sectorLocks EXCEPT ![x.id] = RecoveryHolder]
        /\ folders' = IF x.physical
                      THEN [folders EXCEPT ![x.folder].lock = RecoveryHolder]
                      ELSE folders
        /\ recRunning' = recRunning \cup {x}
        /\ recTodo' = Tail(recTodo)
    /\ tm' = tm + 1
    /\ UNCHANGED <<mrVars, clientVars, fmLock, smLock, smState, dbFolders, dbSectors, extent, wal, th, hist>>

\* An iteration that starts the goroutine without locking the resource first
StartProcessTxn_noLock ==
    /\ smState = "starting"
    /\ recTodo # <<>>
    /\ LET x == recTodo[Len(recTodo)] IN
        /\ decodable(x)
        /\ recRunning' = recRunning \cup {x}
        /\ recTodo' = SubSeq(recTodo, 1, Len(recTodo) - 1)
    /\ tm' = tm + 1
    /\ UNCHANGED <<mrVars, clientVars, fmLock, smLock, smState, folders, dbFolders, dbSectors, extent, wal,
                   sectorLocks, th, hist>>

\* An iteration that locks the resource and starts no goroutine
StartProcessTxn_noGoroutine ==
    /\ smState = "starting"
    /\ recTodo # <<>>
    /\ LET x == recTodo[Len(recTodo)] IN
        /\ decodable(x)
        /\ ResourceFree(x)
        /\ sectorLocks' = [sectorLocks EXCEPT ![x.id] = RecoveryHolder]
        /\ folders' = IF x.physical
                      THEN [folders EXCEPT ![x.folder].lock = RecoveryHolder]
                      ELSE folders
        /\ recTodo' = SubSeq(recTodo, 1, Len(recTodo) - 1)
    /\ UNCHANGED <<mrVars, clientVars, tm, fmLock, smLock, smState, dbFolders, dbSectors, extent, wal, th, recRunning, hist>>

\* Start: the next iteration of the loop over the recovered transactions, the
\* last one first: the resource is locked and the goroutine is started
StartProcessTxn ==
    /\ smState = "starting"
    /\ recTodo # <<>>
    /\ LET x == recTodo[Len(recTodo)] IN
        /\ decodable(x)
        /\ ResourceFree(x)
        /\ sectorLocks' = [sectorLocks EXCEPT ![x.id] = RecoveryHolder]
        /\ folders' = IF x.physical
                      THEN [folders EXCEPT ![x.folder].lock = RecoveryHolder]
                      ELSE folders
        /\ recRunning' = recRunning \cup {x}
        /\ recTodo' = SubSeq(recTodo, 1, Len(recTodo) - 1)
    /\ tm' = tm + 1
    /\ UNCHANGED <<mrVars, clientVars, fmLock, smLock, smState, dbFolders, dbSectors, extent, wal, th, hist>>

\* Start: an iteration in which up.lockResource returns an error: the thread
\* has been added, a warning is logged and the loop continues
StartLockFails ==
    /\ smState = "starting"
    /\ recTodo # <<>>
    /\ decodable(recTodo[Len(recTodo)])
    /\ tm' = tm + 1
    /\ recTodo' = SubSeq(recTodo, 1, Len(recTodo) - 1)
    /\ UNCHANGED <<mrVars, clientVars, fmLock, smLock, smState, folders, dbFolders, dbSectors,
                   extent, wal, sectorLocks, th, recRunning, hist>>

\* storageManager.Close, called when no operation is running: tm.Stop()
\* returns once every thread added is done; the folders are closed
smClose ==
    /\ smState = "running"
    /\ \A t \in Threads : th[t].pc \in {"idle", "off"}
    /\ tm = 0
    /\ smState' = "down"
    /\ folders' = [f \in Folders |-> NoFolder]
    /\ UNCHANGED <<mrVars, clientVars, fmLock, tm, smLock, dbFolders, dbSectors, extent, wal,
                   sectorLocks, th, recTodo, recRunning, hist>>

\* Start returns
StartReturn ==
    /\ smState = "starting"
    /\ recTodo = <<>>
    /\ smState' = "running"
    /\ UNCHANGED <<mrVars, clientVars, tm, fmLock, smLock, folders, dbFolders, dbSectors, extent, wal, sectorLocks, th,
                   recTodo, recRunning, hist>>

\* The target Start passes to prepareProcessReleaseUpdate for a recovered
\* transaction
recoverTarget(x) == targetRecoverCommitted

\* prepareProcessReleaseUpdate(up, targetRecoverCommitted): the recovered
\* transaction is reverted, released from the log and its resource unlocked
RecoverTxn ==
    \E x \in recRunning :
        /\ recoverTarget(x) \in {targetRecoverCommitted, targetRecoverUncommitted}
        /\ dbSectors' = [dbSectors EXCEPT ![x.id] = x.prev]
        /\ dbFolders' = IF x.physical
                        THEN [dbFolders EXCEPT ![x.folder] = RevertedFolder(@, x)]
                        ELSE dbFolders
        /\ folders' = IF x.physical
                      THEN [folders EXCEPT ![x.folder] =
                              [RevertedFolder(@, x) EXCEPT !.lock = 0]]
                      ELSE folders
        /\ sectorLocks' = [sectorLocks EXCEPT ![x.id] = 0]
        /\ wal' = RemoveTxn(wal, x.id)
        /\ recRunning' = recRunning \ {x}
        /\ extent' = IF x.physical
                     THEN [extent EXCEPT ![x.folder][x.index] =
                             IF x.kind = "add" THEN 0 ELSE x.id]
                     ELSE extent
        /\ hist' = [hist EXCEPT !.lastRecovered = x.id]
        /\ tm' = tm - 1
        /\ UNCHANGED <<mrVars, clientVars, fmLock, smLock, smState, th, recTodo>>

(***************************************************************************)
(* The folder manager called directly                                      *)
(***************************************************************************)
\* selectFolderToAddWithRetry(retryTimes) is called: the loop condition is
\* tested before the first pass; when it ends the loop at once, the named
\* results are returned as they are: no folder, index 0 and no error
SelectWithRetry(t) ==
    \E retryTimes \in (0 - 1)..RetryTimes :
        /\ smState = "running"
        /\ th[t].pc = "idle"
        /\ IF retryExhausted(0, retryTimes)
           THEN /\ th' = [th EXCEPT ![t] = [IdleThread EXCEPT !.pc = "returned",
                                               !.op = "select", !.target = retryTimes]]
                /\ UNCHANGED fmLock
           ELSE /\ fmLock.w = 0
                /\ fmLock' = [fmLock EXCEPT !.r = @ \cup {t}]
                /\ th' = [th EXCEPT ![t] = [IdleThread EXCEPT !.pc = "select",
                                               !.op = "select", !.target = retryTimes,
                                               !.scan = Registered]]
        /\ UNCHANGED <<mrVars, clientVars, tm, smLock, smState, folders, dbFolders, dbSectors,
                       extent, wal, sectorLocks, recTodo, recRunning, hist>>

\* getFolders(folderPaths): under fm.lock.RLock() every path is looked up and
\* a path that is not registered returns the error from inside the loop;
\* after the loop comes fm.lock.RUnlock(), then common.Lock takes the locks of
\* all the folders, and the folders are returned locked
getFolders(t) ==
    /\ smState = "running"
    /\ \/ \E folderPaths \in SUBSET Folders :
             /\ th[t].pc = "idle"
             /\ fmLock.w = 0
             /\ IF folderPaths \subseteq Registered
                THEN /\ th' = [th EXCEPT ![t] = [IdleThread EXCEPT !.pc = "lockFolders",
                                                    !.op = "getFolders",
                                                    !.scan = folderPaths]]
                     /\ UNCHANGED fmLock
                ELSE /\ th' = [th EXCEPT ![t] = [IdleThread EXCEPT !.pc = "returned",
                                                    !.op = "getFolders",
                                                    !.err = "notexist"]]
                     /\ fmLock' = [fmLock EXCEPT !.r = @ \cup {t}]
             /\ UNCHANGED folders
       \/ /\ th[t].pc = "lockFolders"
          /\ \A f \in th[t].scan : folders[f].lock = 0
          /\ folders' = [f \in Folders |->
                           IF f \in th[t].scan THEN [folders[f] EXCEPT !.lock = t]
                           ELSE folders[f]]
          /\ th' = [th EXCEPT ![t].pc = "returned"]
          /\ UNCHANGED fmLock
    /\ UNCHANGED <<mrVars, clientVars, tm, smLock, smState, dbFolders, dbSectors,
                   extent, wal, sectorLocks, recTodo, recRunning, hist>>

\* close(): fm.lock.Lock(), then every folder in turn is locked, its data file
\* closed and the folder unlocked; the deferred fm.lock.Unlock() ends the call
close(t) ==
    /\ smState = "running"
    /\ \/ /\ th[t].pc = "idle"
          /\ fmLock.w = 0 /\ fmLock.r = {}
          /\ fmLock' = [fmLock EXCEPT !.w = t]
          /\ th' = [th EXCEPT ![t] = [IdleThread EXCEPT !.pc = "closing", !.op = "close",
                                                         !.scan = Registered]]
       \/ /\ th[t].pc = "closing"
          /\ \E f \in th[t].scan :
                /\ folders[f].lock = 0
                /\ th' = [th EXCEPT ![t].scan = @ \ {f},
                                    ![t].pc = IF th[t].scan = {f} THEN "returned"
                                              ELSE "closing"]
                /\ fmLock' = IF th[t].scan = {f} THEN [fmLock EXCEPT !.w = 0] ELSE fmLock
    /\ UNCHANGED <<mrVars, clientVars, tm, smLock, smState, folders, dbFolders, dbSectors,
                   extent, wal, sectorLocks, recTodo, recRunning, hist>>

\* The caller of the folder manager is done with what the call returned: it
\* unlocks the folders the call returned locked
CallerDone(t) ==
    /\ th[t].op \in {"select", "getFolders", "close"}
    /\ th[t].pc \in {"returned", "intent", "release"}
    /\ folders' = [f \in Folders |->
                     IF folders[f].lock = t THEN [folders[f] EXCEPT !.lock = 0]
                     ELSE folders[f]]
    /\ th' = [th EXCEPT ![t] = IdleThread]
    /\ UNCHANGED <<mrVars, clientVars, tm, fmLock, smLock, smState, dbFolders, dbSectors,
                   extent, wal, sectorLocks, recTodo, recRunning, hist>>

(***************************************************************************)
(* Part III: VerifyRevision                                                *)
(***************************************************************************)
\* big.Int.Int64 of a non-negative value: the low IntBits bits as a signed
\* integer; the value itself when it fits
Int64(x) ==
    LET low == x % Pow2(IntBits)
    IN IF low >= Pow2(IntBits - 1) THEN low - Pow2(IntBits) ELSE low

\* The values VerifyRevision compares: the valid proof outputs of the client
\* [0] and of the host [1] in the last revision and in the new one, the missed
\* proof output of the client in the new one, the expected exchange, and
\* whether the checks of the other fields pass. The values go up to one that
\* Int64 cannot hold.
RevisionInputs ==
    LET MaxValue == Pow2(IntBits) + 1
    IN [oldClient : 0..MaxValue, newClient : 0..MaxValue,
        oldHost : 0..MaxValue, newHost : 0..MaxValue,
        newClientMissed : {0, MaxValue}, expectedExchange : 0..MaxExchange,
        otherFields : {"ok", "preceding", "following"}]

\* VerifyRevision: "nil" or the error it returns
VerifyRevision(r) ==
    IF r.otherFields = "preceding" THEN "errBadField"
    ELSE IF r.newClient > r.oldClient THEN "errHighClientValidOutput"
    ELSE LET fromClient == Int64(r.oldClient) - Int64(r.newClient) IN
         IF fromClient < r.expectedExchange THEN "errHighClientValidOutput"
         ELSE IF r.oldHost > r.newHost THEN "errLowHostValidOutput"
         ELSE LET toHost == Int64(r.newHost) - Int64(r.oldHost) IN
              IF toHost # fromClient THEN "errLowHostValidOutput"
              ELSE IF r.newClient > r.newClientMissed THEN "errHighClientMissedOutput"
              ELSE IF r.otherFields = "following" THEN "errBadField"
              ELSE "nil"

\* VerifyRevision is called on a revision
VerifyRevisionCall ==
    /\ revision.stage = "received"
    /\ revision' = [revision EXCEPT !.stage = "verified",
                                     !.err = VerifyRevision(revision.in)]
    /\ UNCHANGED <<mrVars, smVars, segment, fileSet, upload>>

(***************************************************************************)
(* Part III: the health of a segment                                       *)
(***************************************************************************)
\* The metadata of a DxFile (NumSectors, MinSectors) and the number of good
\* sectors goodSectors counts in one of its segments, which holds one list of
\* sectors per index and may hold more lists than NumSectors
SegmentInputs ==
    {s \in [numSectors : 1..MaxSectors, minSectors : 1..MaxSectors,
            goodSectors : 0..(MaxSectors + 1)] :
        /\ s.minSectors <= s.numSectors
        /\ s.goodSectors <= s.numSectors + 1}

\* segmentHealth: the score, or the panic. The arithmetic is uint32 and the
\* division rounds down; no product reaches 2^32 for the sizes used here. A
\* division by zero is a run-time panic.
segmentHealth(numSectors, minSectors, goodSectors) ==
    IF goodSectors > numSectors THEN [panic |-> TRUE, score |-> 0]
    ELSE IF goodSectors > minSectors
         THEN [panic |-> FALSE,
               score |-> 100 + ((goodSectors - minSectors) * 100)
                                   \div (numSectors - minSectors)]
         ELSE IF minSectors = 0 THEN [panic |-> TRUE, score |-> 0]
              ELSE [panic |-> FALSE, score |-> (goodSectors * 100) \div minSectors]

\* isStuckHealth: only a health of 200 is healthy
isStuckHealth(health) == health < 200

\* SegmentHealth is called on a segment
SegmentHealth ==
    /\ segment.stage = "loaded"
    /\ LET h == segmentHealth(segment.in.numSectors, segment.in.minSectors,
                              segment.in.goodSectors)
       IN segment' = [segment EXCEPT !.stage = IF h.panic THEN "panic" ELSE "scored",
                                     !.score = h.score]
    /\ UNCHANGED <<mrVars, smVars, revision, fileSet, upload>>

(***************************************************************************)
(* Part III: the FileSet                                                   *)
(***************************************************************************)
\* No entry under a path of filesMap
NoEntry == 0

\* A fileSetEntry: the DxPath of its metadata, whether the DxFile is deleted,
\* and the thread ids registered in threadMap
newFileSetEntry(dxPath) == [path |-> dxPath, deleted |-> FALSE, threadMap |-> {}]

\* NewFileSet: no entry loaded. Some DxFiles may be on disk already.
NewFileSet(onDisk) ==
    [stage |-> "open",
     filesMap |-> [p \in (1..NumPaths) |-> NoEntry],
     entries |-> [e \in (1..MaxEntries) |-> newFileSetEntry(1)],
     handles |-> {},
     disk |-> onDisk,
     nextEntry |-> 1,
     nextThread |-> 1,
     last |-> [op |-> "none", path |-> 1, err |-> "none", entry |-> NoEntry]]

\* randomThreadID: 8 random bytes; two draws are taken to differ
randomThreadID(fs) == fs.nextThread

\* FileSet.exists: the entry of filesMap if there is one, else the disk
exists(fs, dxPath) ==
    IF fs.filesMap[dxPath] # NoEntry
    THEN ~fs.entries[fs.filesMap[dxPath]].deleted
    ELSE dxPath \in fs.disk

\* Registers a fresh thread id in the threadMap of an entry and hands it out
register(fs, e) ==
    [fs EXCEPT !.entries[e].threadMap = @ \cup {randomThreadID(fs)},
               !.handles = @ \cup {[entry |-> e, threadID |-> randomThreadID(fs)]},
               !.nextThread = @ + 1]

\* FileSet.open: the FileSet after the call, the error, and the handle
open(fs, dxPath, readFails) ==
    LET cached == fs.filesMap[dxPath]
        loaded == [fs EXCEPT !.filesMap[dxPath] = fs.nextEntry,
                             !.entries[fs.nextEntry] = newFileSetEntry(dxPath),
                             !.nextEntry = @ + 1]
        fs1 == IF cached = NoEntry THEN loaded ELSE fs
        e == fs1.filesMap[dxPath]
    IN IF cached = NoEntry /\ dxPath \notin fs.disk
       THEN [fs |-> fs, err |-> "ErrUnknownFile", h |-> [entry |-> NoEntry, threadID |-> 0]]
       ELSE IF cached = NoEntry /\ readFails
       THEN [fs |-> fs, err |-> "readError", h |-> [entry |-> NoEntry, threadID |-> 0]]
       ELSE IF fs1.entries[e].deleted
       THEN [fs |-> fs1, err |-> "ErrUnknownFile", h |-> [entry |-> NoEntry, threadID |-> 0]]
       ELSE [fs |-> register(fs1, e), err |-> "none",
             h |-> [entry |-> e, threadID |-> randomThreadID(fs1)]]

\* FileSet.closeEntry
closeEntry(fs, h) ==
    LET fs1 == [fs EXCEPT !.entries[h.entry].threadMap = @ \ {h.threadID},
                          !.handles = @ \ {h}]
        dxPath == fs1.entries[h.entry].path
    IN IF fs1.filesMap[dxPath] # h.entry THEN fs1
       ELSE IF fs1.entries[h.entry].threadMap = {}
            THEN [fs1 EXCEPT !.filesMap[dxPath] = NoEntry]
            ELSE fs1

Result(op, dxPath, err, h) ==
    [op |-> op, path |-> dxPath, err |-> err, entry |-> h.entry]

\* Objects and thread ids are left for the call
CanAllocate(entriesNeeded) ==
    /\ fileSet.stage = "open"
    /\ fileSet.nextEntry + entriesNeeded - 1 <= MaxEntries
    /\ fileSet.nextThread <= MaxThreadIDs

\* FileSet.NewDxFile
NewDxFile ==
    \E dxPath \in (1..NumPaths), force \in BOOLEAN, newFails \in BOOLEAN :
        /\ CanAllocate(1)
        /\ LET fs == fileSet
               e == fs.nextEntry
               created == [fs EXCEPT !.entries[e] = newFileSetEntry(dxPath),
                                     !.nextEntry = @ + 1,
                                     !.disk = @ \cup {dxPath}]
               registered == register(created, e)
           IN fileSet' =
                IF exists(fs, dxPath) /\ ~force
                THEN [fs EXCEPT !.last = Result("NewDxFile", dxPath, "ErrFileExist",
                                                [entry |-> NoEntry, threadID |-> 0])]
                ELSE IF newFails
                THEN [fs EXCEPT !.last = Result("NewDxFile", dxPath, "newError",
                                                [entry |-> NoEntry, threadID |-> 0])]
                ELSE [registered EXCEPT
                         !.filesMap[dxPath] = e,
                         !.last = Result("NewDxFile", dxPath, "none", [entry |-> e, threadID |-> 0])]
        /\ UNCHANGED <<mrVars, smVars, revision, segment, upload>>

\* FileSetEntryWithID.CopyEntry, on a handle that is not closed
CopyEntry ==
    /\ CanAllocate(0)
    /\ \E h \in fileSet.handles :
          fileSet' = [register(fileSet, h.entry) EXCEPT
                         !.last = Result("CopyEntry", fileSet.entries[h.entry].path,
                                         "none", h)]
    /\ UNCHANGED <<mrVars, smVars, revision, segment, upload>>

\* FileSet.Open
Open ==
    \E dxPath \in (1..NumPaths), readFails \in BOOLEAN :
        /\ CanAllocate(1)
        /\ LET r == open(fileSet, dxPath, readFails)
           IN fileSet' = [r.fs EXCEPT !.last = Result("Open", dxPath, r.err, r.h)]
        /\ UNCHANGED <<mrVars, smVars, revision, segment, upload>>

\* FileSetEntryWithID.Close, on a handle that is not closed
Close ==
    /\ fileSet.stage = "open"
    /\ \E h \in fileSet.handles :
          fileSet' = [closeEntry(fileSet, h) EXCEPT
                         !.last = Result("Close", fileSet.entries[h.entry].path,
                                         "none", h)]
    /\ UNCHANGED <<mrVars, smVars, revision, segment, upload>>

\* FileSet.Delete: the entry is opened, the DxFile deleted, the path taken out
\* of filesMap, and the entry closed on return
Delete ==
    \E dxPath \in (1..NumPaths), readFails \in BOOLEAN, deleteFails \in BOOLEAN :
        /\ CanAllocate(1)
        /\ LET r == open(fileSet, dxPath, readFails)
               e == r.h.entry
               deleted == [r.fs EXCEPT !.entries[e].deleted = TRUE,
                                       !.disk = @ \ {dxPath},
                                       !.filesMap[r.fs.entries[e].path] = NoEntry]
           IN fileSet' =
                IF r.err # "none"
                THEN [r.fs EXCEPT !.last = Result("Delete", dxPath, r.err, r.h)]
                ELSE IF deleteFails
                THEN [closeEntry(r.fs, r.h) EXCEPT
                         !.last = Result("Delete", dxPath, "deleteError", r.h)]
                ELSE [closeEntry(deleted, r.h) EXCEPT
                         !.last = Result("Delete", dxPath, "none", r.h)]
        /\ UNCHANGED <<mrVars, smVars, revision, segment, upload>>

\* FileSet.Rename: the entry is opened, moved in filesMap and renamed, and
\* closed on return. The rename of the DxFile may fail, after the move in
\* filesMap, and then the DxPath of its metadata is the new or the old one
Rename ==
    \E dxPath \in (1..NumPaths), newDxPath \in (1..NumPaths), readFails \in BOOLEAN,
       renameFails \in BOOLEAN, pathSet \in BOOLEAN :
        /\ CanAllocate(1)
        /\ LET r == open(fileSet, dxPath, readFails)
               e == r.h.entry
               remapped == [r.fs EXCEPT
                              !.filesMap = [@ EXCEPT ![newDxPath] = e, ![dxPath] = NoEntry]]
               moved == [remapped EXCEPT
                           !.entries[e].path = newDxPath,
                           !.disk = (@ \ {dxPath}) \cup {newDxPath}]
               failed == [remapped EXCEPT
                            !.entries[e].path = IF pathSet THEN newDxPath ELSE @]
           IN fileSet' =
                IF exists(fileSet, newDxPath)
                THEN [fileSet EXCEPT !.last = Result("Rename", dxPath, "ErrFileExist",
                                                     [entry |-> NoEntry, threadID |-> 0])]
                ELSE IF r.err # "none"
                THEN [r.fs EXCEPT !.last = Result("Rename", dxPath, r.err, r.h)]
                ELSE IF renameFails
                THEN [closeEntry(failed, r.h) EXCEPT
                         !.last = Result("Rename", dxPath, "renameError", r.h)]
                ELSE [closeEntry(moved, r.h) EXCEPT
                         !.last = Result("Rename", dxPath, "none", r.h)]
        /\ UNCHANGED <<mrVars, smVars, revision, segment, upload>>

(***************************************************************************)
(* Part III: the upload negotiation of the storage host                    *)
(***************************************************************************)
\* The deferred function of UploadHandler, run at every return: the host
\* sends its ACK after an error of the client, and a negotiate error message
\* after an error of its own; ret names the call the handler returned at
UploadReturn(u, ret) ==
    [u EXCEPT !.pc = "done", !.ret = ret,
              !.sent = IF u.clientNegotiateErr \/ u.clientCommitErr
                       THEN Append(@, "HostAckMsg")
                       ELSE IF u.hostNegotiateErr
                       THEN Append(@, "HostNegotiateErrorMsg")
                       ELSE @]

\* UploadHandler up to the revision signature of the host. First the request
\* is decoded, the storage responsibility is read and kept as a snapshot, the
\* actions are processed (an action of unknown type sets hostNegotiateErr and
\* the loop goes on), the new revision is verified and the Merkle proof is
\* sent; then the handler waits for the signature of the client, signs the
\* revision, updates its copy of the responsibility and sends its signature.
\* The root of an action stands for Sha256MerkleTreeRoot(action.Data).
UploadNegotiate ==
    \/ /\ upload.pc \in {"idle", "done"}
       /\ upload.db.Revisions < MaxRevisions
       /\ \E decoded \in BOOLEAN, found \in BOOLEAN, verified \in BOOLEAN,
             proofOk \in BOOLEAN, sendOk \in BOOLEAN,
             actions \in SeqsUpTo([Type : {"append", "unknown"}, Root : Hashes],
                                  MaxActions) :
            LET so == upload.db
                appends == SelectSeq(actions, LAMBDA a : a.Type = "append")
                sectorsGained == [i \in 1..Len(appends) |-> appends[i].Root]
                u0 == [pc |-> "idle", db |-> upload.db, ret |-> "none",
                       Actions |-> <<>>,
                       so |-> [SectorRoots |-> <<>>, Revisions |-> 0],
                       snapshotSo |-> [SectorRoots |-> <<>>, Revisions |-> 0],
                       newRoots |-> <<>>, sectorsGained |-> <<>>,
                       hostNegotiateErr |-> FALSE, clientNegotiateErr |-> FALSE,
                       clientCommitErr |-> FALSE, signed |-> FALSE,
                       modified |-> FALSE, sent |-> <<>>, recv |-> <<>>]
                u1 == [u0 EXCEPT !.Actions = actions,
                                 !.so = so, !.snapshotSo = so,
                                 !.newRoots = so.SectorRoots \o sectorsGained,
                                 !.sectorsGained = sectorsGained,
                                 !.hostNegotiateErr =
                                     \E i \in 1..Len(actions) : actions[i].Type # "append"]
            IN upload' =
                 IF ~decoded
                 THEN UploadReturn([u0 EXCEPT !.clientNegotiateErr = TRUE], "Decode")
                 ELSE IF ~found
                 THEN UploadReturn([u0 EXCEPT !.Actions = actions,
                                              !.hostNegotiateErr = TRUE],
                                   "getStorageResponsibility")
                 ELSE IF ~verified
                 THEN UploadReturn([u1 EXCEPT !.hostNegotiateErr = TRUE], "VerifyRevision")
                 ELSE IF ~proofOk
                 THEN UploadReturn([u1 EXCEPT !.hostNegotiateErr = TRUE], "Sha256DiffProof")
                 ELSE IF ~sendOk
                 THEN UploadReturn(u1, "SendUploadMerkleProof")
                 ELSE [u1 EXCEPT !.pc = "waitSign",
                                 !.sent = Append(@, "UploadMerkleProof")]
    \/ /\ upload.pc = "waitSign"
       /\ \E resp \in {"timeout", "ClientNegotiateErrorMsg", "undecodable",
                       "ClientRevisionSign"},
             walletOk \in BOOLEAN, signOk \in BOOLEAN, sendOk \in BOOLEAN :
            LET u1 == [upload EXCEPT !.recv = Append(@, resp)]
                u2 == [u1 EXCEPT !.signed = TRUE,
                                 !.so = [SectorRoots |-> u1.newRoots,
                                         Revisions |-> @.Revisions + 1]]
            IN upload' =
                 IF resp = "timeout"
                 THEN UploadReturn(upload, "HostWaitContractResp")
                 ELSE IF resp \in {"ClientNegotiateErrorMsg", "undecodable"}
                 THEN UploadReturn([u1 EXCEPT !.clientNegotiateErr = TRUE], resp)
                 ELSE IF ~walletOk
                 THEN UploadReturn([u1 EXCEPT !.hostNegotiateErr = TRUE], "Find")
                 ELSE IF ~signOk
                 THEN UploadReturn([u1 EXCEPT !.hostNegotiateErr = TRUE], "SignHash")
                 ELSE IF ~sendOk
                 THEN UploadReturn(u2, "SendUploadHostRevisionSign")
                 ELSE [u2 EXCEPT !.pc = "waitCommit",
                                 !.sent = Append(@, "UploadHostRevisionSign")]
    /\ UNCHANGED <<mrVars, smVars, revision, segment, fileSet>>

\* Mutant: the responsibility is stored whatever message the client sent.
UploadCommit_anyMessage ==
    /\ upload.pc = "waitCommit"
    /\ \E resp \in {"ClientCommitSuccessMsg", "ClientCommitFailedMsg",
                    "ClientNegotiateErrorMsg", "ClientAckMsg"} :
          upload' = [upload EXCEPT !.recv = Append(@, resp), !.pc = "ack",
                                   !.db = upload.so, !.modified = TRUE]
    /\ UNCHANGED <<mrVars, smVars, revision, segment, fileSet>>

\* UploadHandler after its signature is sent: it waits for the message of the
\* client and stores the responsibility (modifyStorageResponsibility) when
\* the message is ClientCommitSuccessMsg; when the store fails it sends
\* HostCommitFailedMsg, waits for the ACK of the client and sends its own
UploadCommit ==
    /\ upload.pc = "waitCommit"
    /\ \E resp \in {"timeout", "ClientCommitSuccessMsg", "ClientCommitFailedMsg",
                    "ClientNegotiateErrorMsg", "ClientAckMsg"},
          modifyOk \in BOOLEAN, ackOk \in BOOLEAN :
         LET u1 == [upload EXCEPT !.recv = Append(@, resp)]
             u2 == [u1 EXCEPT !.sent = Append(@, "HostCommitFailedMsg")]
         IN upload' =
              IF resp = "timeout"
              THEN UploadReturn(upload, "HostWaitContractResp")
              ELSE IF resp = "ClientCommitSuccessMsg"
              THEN IF modifyOk
                   THEN [u1 EXCEPT !.pc = "ack", !.db = u1.so, !.modified = TRUE]
                   ELSE IF ~ackOk
                   THEN UploadReturn(u2, "HostWaitContractResp")
                   ELSE UploadReturn([u2 EXCEPT !.recv = Append(@, "ClientAckMsg"),
                                                !.sent = Append(@, "HostAckMsg")],
                                     "modifyStorageResponsibility")
              ELSE IF resp = "ClientCommitFailedMsg"
              THEN UploadReturn([u1 EXCEPT !.clientCommitErr = TRUE], resp)
              ELSE IF resp = "ClientNegotiateErrorMsg"
              THEN UploadReturn([u1 EXCEPT !.clientNegotiateErr = TRUE], resp)
              ELSE [u1 EXCEPT !.pc = "ack"]
    /\ UNCHANGED <<mrVars, smVars, revision, segment, fileSet>>

\* The end of UploadHandler: a connection that is not static and has no node
\* returns; otherwise the host sends its ACK, and when the ACK cannot be sent
\* rollbackStorageResponsibility restores the snapshot
UploadAck ==
    /\ upload.pc = "ack"
    /\ \E static \in BOOLEAN, nodeNil \in BOOLEAN, sendOk \in BOOLEAN :
          upload' =
              IF ~static /\ nodeNil
              THEN UploadReturn(upload, "PeerNode")
              ELSE IF sendOk
              THEN UploadReturn([upload EXCEPT !.sent = Append(@, "HostAckMsg")], "none")
              ELSE UploadReturn([upload EXCEPT !.db = upload.snapshotSo],
                                "SendHostAckMsg")
    /\ UNCHANGED <<mrVars, smVars, revision, segment, fileSet>>

\* VerifyRevision, segmentHealth, the FileSet and UploadHandler are not part
\* of the behaviour
ClientDormant ==
    /\ revision = [stage |-> "none"]
    /\ segment = [stage |-> "none"]
    /\ fileSet = [stage |-> "none"]
    /\ upload = [pc |-> "none"]

(***************************************************************************)
(* Initial states and specifications                                       *)
(***************************************************************************)
\* The history of a behaviour: the net number of successful adds minus deletes
\* of every id, whether an add failed for lack of capacity, the number of
\* terminations, the ids the callers use, the threads that also call the
\* folder operations, the folders whose free-slot lookup fails, the position
\* of the call in flight
\* on every id at the last termination, and the id of the transaction
\* recovered last
NoHistory ==
    [net |-> [id \in Ids |-> 0], capFailed |-> FALSE, crashes |-> 0, ids |-> {},
     struct |-> {}, faulty |-> {},
     crashed |-> [id \in Ids |-> "none"], lastRecovered |-> 0]

\* The folders registered by AddStorageFolder: the first k folders, at most
\* maxNumFolders, each with a capacity and a status, no sector stored
FolderConfigs(statuses) ==
    {cfg \in [Folders -> [exists : BOOLEAN, numSectors : 0..MaxCap,
                          storedSectors : {0}, usage : {{}}, status : statuses]] :
        /\ cfg[1].exists
        /\ Cardinality({f \in Folders : cfg[f].exists}) <= maxNumFolders
        /\ \A f \in Folders :
              /\ cfg[f].exists => cfg[f].numSectors >= 1
              /\ ~cfg[f].exists => cfg[f] = FolderRecord(NoFolder)
              /\ (f > 1 /\ cfg[f].exists) => cfg[f - 1].exists}

SMInitFaulty(cfgs, threads, ids, struct, faulty) ==
    /\ smState = "running"
    /\ smLock = NoLock
    /\ fmLock = [w |-> 0, r |-> {}]
    /\ tm = 0
    /\ dbFolders \in cfgs
    /\ folders = loadFolderManager(dbFolders)
    /\ dbSectors = [id \in Ids |-> NoRec]
    /\ extent = [f \in Folders |-> [i \in 0..(MaxCap - 1) |-> 0]]
    /\ wal = <<>>
    /\ sectorLocks = [id \in Ids |-> 0]
    /\ th = [t \in Threads |-> IF t \in threads THEN IdleThread ELSE OffThread]
    /\ recTodo = <<>>
    /\ recRunning = {}
    /\ hist \in {[NoHistory EXCEPT !.ids = ids, !.struct = struct, !.faulty = F] :
                    F \in faulty}

SMInitRoles(cfgs, threads, ids, struct) == SMInitFaulty(cfgs, threads, ids, struct, {{}})

SMInitWith(cfgs, threads, ids) == SMInitRoles(cfgs, threads, ids, {})

\* The storage manager is not part of the behaviour
SMDormant ==
    /\ smState = "down"
    /\ smLock = NoLock
    /\ fmLock = [w |-> 0, r |-> {}]
    /\ tm = 0
    /\ dbFolders = [f \in Folders |-> FolderRecord(NoFolder)]
    /\ folders = [f \in Folders |-> NoFolder]
    /\ dbSectors = [id \in Ids |-> NoRec]
    /\ extent = [f \in Folders |-> [i \in 0..(MaxCap - 1) |-> 0]]
    /\ wal = <<>>
    /\ sectorLocks = [id \in Ids |-> 0]
    /\ th = [t \in Threads |-> OffThread]
    /\ recTodo = <<>>
    /\ recRunning = {}
    /\ hist = NoHistory

\* The Merkle root cache is not part of the behaviour
MerkleDormant ==
    /\ mr = newMerkleRoots
    /\ mrStage = "none"
    /\ dbRoots = <<>>
    /\ preview = NoPreview
    /\ mrLast = [op |-> "none", arg |-> EmptyHash, err |-> FALSE]

SectorOps ==
    \E t \in Threads :
        \/ AddSector(t)
        \/ DeleteSector(t)
        \/ RLock(t)
        \/ LockSector(t)
        \/ LookupAdd(t)
        \/ LookupDelete(t)
        \/ LockFolder(t)
        \/ SelectFolderVisit(t)
        \/ SelectPassFails(t)
        \/ SelectBackoff(t)
        \/ RecordIntent(t)
        \/ PhysicalWrite(t)
        \/ UpdateMetadata(t)
        \/ CompleteTxn(t)
        \/ ReleaseLocks(t)
        \/ Return(t)

FolderOps ==
    \E t \in Threads :
        \/ ResizeFolder(t)
        \/ DeleteFolder(t)
        \/ FoldersCall(t)
        \/ AvailableSpace(t)
        \/ Lock(t)
        \/ ResizeBody(t)
        \/ DeleteFolderBody(t)
        \/ EvacuateSector(t)
        \/ EvacuateFails(t)
        \/ ShrinkFinish(t)
        \/ DeleteFolderRemove(t)
        \/ ReadFolders(t)
        \/ Unlock(t)

\* The sector ids the concurrent callers use
ConcurrentIds == 1..(NumIds - 1)

\* Concurrent callers of AddSector and DeleteSector
SMInit ==
    /\ MerkleDormant
    /\ ClientDormant
    /\ SMInitWith({cfg \in FolderConfigs({folderAvailable, folderUnavailable}) :
                      /\ cfg[1].status = folderAvailable
                      /\ \A f \in Folders :
                            cfg[f].exists => cfg[f].numSectors = cfg[1].numSectors},
                  Threads, ConcurrentIds)

SMNext == SectorOps

SpecSM == SMInit /\ [][SMNext]_vars

\* One caller and one registered, available folder
SeqInit ==
    /\ MerkleDormant
    /\ ClientDormant
    /\ SMInitWith({cfg \in FolderConfigs({folderAvailable}) :
                      \A f \in Folders : cfg[f].exists <=> f = 1}, {1}, Ids)

SpecSeq == SeqInit /\ [][SMNext]_vars

\* One caller, two registered, available folders; the free-slot lookup of
\* any of them may fail
FaultyInit ==
    /\ MerkleDormant
    /\ ClientDormant
    /\ SMInitFaulty({cfg \in FolderConfigs({folderAvailable}) :
                        \A f \in Folders : cfg[f].exists <=> f <= maxNumFolders},
                    {1}, Ids, {}, SUBSET (1..maxNumFolders))

SpecFaulty == FaultyInit /\ [][SMNext]_vars

\* Callers of the sector operations and of the folder operations
ResizeInit ==
    /\ MerkleDormant
    /\ ClientDormant
    /\ SMInitRoles({cfg \in FolderConfigs({folderAvailable, folderUnavailable}) :
                       /\ cfg[1].status = folderAvailable
                       /\ \A f \in Folders : cfg[f].exists <=> f <= maxNumFolders},
                   Threads, {1}, Threads)

SpecResize == ResizeInit /\ [][SectorOps \/ FolderOps]_vars

\* Callers of the folder manager on any set of registered folders
AddFolderInit ==
    /\ MerkleDormant
    /\ ClientDormant
    /\ SMInitRoles(FolderConfigs({folderAvailable, folderUnavailable}), Threads, {}, {})

\* Callers of folderManager.addFolder
SpecAddFolder ==
    AddFolderInit /\ [][\E t \in Threads : addFolderCall(t) \/ Return(t)]_vars

AddFolderOps ==
    \E t \in Threads :
        \/ AddStorageFolder(t)
        \/ AddFolderBody(t)

\* One caller of the sector operations and of all the folder operations,
\* AddStorageFolder included, one call after the other
FoldersInit ==
    /\ MerkleDormant
    /\ ClientDormant
    /\ SMInitRoles({cfg \in FolderConfigs({folderAvailable, folderUnavailable}) :
                       cfg[1].status = folderAvailable},
                   {1}, ConcurrentIds, {1})

FoldersNext ==
    \/ SectorOps
    \/ FolderOps
    \/ AddFolderOps

SpecFolders == FoldersInit /\ [][FoldersNext]_vars

\* The steps of AddSector
AddSteps(t) ==
    \/ RLock(t)
    \/ LockSector(t)
    \/ LookupAdd(t)
    \/ SelectFolderVisit(t)
    \/ SelectPassFails(t)
    \/ SelectBackoff(t)
    \/ RecordIntent(t)
    \/ PhysicalWrite(t)
    \/ UpdateMetadata(t)
    \/ CompleteTxn(t)
    \/ ReleaseLocks(t)

\* The steps of ResizeFolder
ResizeSteps(t) ==
    \/ Lock(t)
    \/ ResizeBody(t)
    \/ EvacuateSector(t)
    \/ EvacuateFails(t)
    \/ ShrinkFinish(t)
    \/ Unlock(t)

\* Callers of AddSector, one of them also a caller of ResizeFolder
AddResizeInit ==
    /\ MerkleDormant
    /\ ClientDormant
    /\ SMInitRoles({cfg \in FolderConfigs({folderAvailable, folderUnavailable}) :
                       /\ cfg[1].status = folderAvailable
                       /\ \A f \in Folders : cfg[f].exists <=> f <= maxNumFolders},
                   Threads, ConcurrentIds, {NumThreads})

AddResizeNext ==
    \E t \in Threads :
        \/ AddSector(t)
        \/ ResizeFolder(t)
        \/ AddSteps(t)
        \/ ResizeSteps(t)
        \/ Return(t)

\* Every call that can take a step eventually takes one, and a call that
\* waits for a lock that is free again and again eventually gets it
AddResizeFairness ==
    \A t \in Threads :
        /\ WF_vars(AddSteps(t) \/ ResizeSteps(t))
        /\ SF_vars(RLock(t))
        /\ SF_vars(LockSector(t))
        /\ SF_vars(Lock(t))

SpecAddResize == AddResizeInit /\ [][AddResizeNext]_vars /\ AddResizeFairness

\* Concurrent callers, termination of the process and Start
CrashInit ==
    /\ MerkleDormant
    /\ ClientDormant
    /\ SMInitWith({cfg \in FolderConfigs({folderAvailable}) :
                      \A f \in Folders :
                         cfg[f].exists => cfg[f].numSectors = cfg[1].numSectors},
                  Threads, ConcurrentIds)

CrashNext ==
    \/ SectorOps
    \/ Crash
    \/ StartLoad
    \/ StartProcessTxn
    \/ StartReturn
    \/ RecoverTxn

SpecCrash == CrashInit /\ [][CrashNext]_vars

\* The same, with log entries that are damaged while the process is down
CorruptNext ==
    \/ SectorOps
    \/ Crash
    \/ CorruptEntry
    \/ StartLoad
    \/ StartSkipTxn
    \/ StartProcessTxn
    \/ StartReturn
    \/ RecoverTxn

SpecCorrupt == CrashInit /\ [][CorruptNext]_vars

\* A storage host that verifies revisions
RevisionInit ==
    /\ MerkleDormant
    /\ SMDormant
    /\ revision \in [stage : {"received"}, in : RevisionInputs, err : {"none"}]
    /\ segment = [stage |-> "none"]
    /\ fileSet = [stage |-> "none"]
    /\ upload = [pc |-> "none"]

SpecRevision == RevisionInit /\ [][VerifyRevisionCall]_vars

\* A DxFile with one segment whose health is asked for
HealthInit ==
    /\ MerkleDormant
    /\ SMDormant
    /\ revision = [stage |-> "none"]
    /\ segment \in [stage : {"loaded"}, in : SegmentInputs, score : {0}]
    /\ fileSet = [stage |-> "none"]
    /\ upload = [pc |-> "none"]

SpecHealth == HealthInit /\ [][SegmentHealth]_vars

\* A FileSet over a directory that may hold DxFiles
FileSetInit ==
    /\ MerkleDormant
    /\ SMDormant
    /\ revision = [stage |-> "none"]
    /\ segment = [stage |-> "none"]
    /\ fileSet \in {NewFileSet(onDisk) : onDisk \in SUBSET (1..NumPaths)}
    /\ upload = [pc |-> "none"]

FileSetNext ==
    \/ NewDxFile
    \/ CopyEntry
    \/ Open
    \/ Close
    \/ Delete
    \/ Rename

SpecFileSet == FileSetInit /\ [][FileSetNext]_vars

\* The storage host handles upload requests for one storage contract, whose
\* responsibility is stored with its first revision and no sector
UploadInit ==
    /\ MerkleDormant
    /\ SMDormant
    /\ revision = [stage |-> "none"]
    /\ segment = [stage |-> "none"]
    /\ fileSet = [stage |-> "none"]
    /\ upload = [pc |-> "idle", db |-> [SectorRoots |-> <<>>, Revisions |-> 1],
                 ret |-> "none", Actions |-> <<>>,
                 so |-> [SectorRoots |-> <<>>, Revisions |-> 1],
                 snapshotSo |-> [SectorRoots |-> <<>>, Revisions |-> 1],
                 newRoots |-> <<>>, sectorsGained |-> <<>>,
                 hostNegotiateErr |-> FALSE, clientNegotiateErr |-> FALSE,
                 clientCommitErr |-> FALSE, signed |-> FALSE,
                 modified |-> FALSE, sent |-> <<>>, recv |-> <<>>]

SpecUpload == UploadInit /\ [][UploadNegotiate \/ UploadCommit \/ UploadAck]_vars

\* Callers of the folder manager over folders of both statuses
SpecFolderManager ==
    /\ AddFolderInit
    /\ [][\E t \in Threads :
              \/ SelectWithRetry(t)
              \/ SelectFolderVisit(t)
              \/ SelectPassFails(t)
              \/ SelectBackoff(t)
              \/ getFolders(t)
              \/ close(t)
              \/ CallerDone(t)]_vars

\* Termination, Start with failing locks, and Close
SpecRecover == CrashInit /\ [][CrashNext \/ StartLockFails \/ smClose]_vars

MerkleInit ==
    /\ mr = newMerkleRoots
    /\ mrStage = "none"
    /\ dbRoots \in SeqsUpTo(Hashes, MaxLeaves)
    /\ preview = NoPreview
    /\ mrLast = [op |-> "none", arg |-> EmptyHash, err |-> FALSE]
    /\ SMDormant
    /\ ClientDormant

MerkleNext ==
    \/ NewMerkleRoots
    \/ LoadMerkleRoots
    \/ Push
    \/ PushStoreFails
    \/ Preview

SpecMerkle == MerkleInit /\ [][MerkleNext]_vars

(***************************************************************************)
(* Claims about the Merkle root cache                                      *)
(***************************************************************************)
IsPrefix(a, b) == Len(a) <= Len(b) /\ SubSeq(b, 1, Len(a)) = a

\* The leaves of the i-th cached subtree
Block(d, i) == SubSeq(d, (i - 1) * merkleRootsPerCache + 1, i * merkleRootsPerCache)

\* C1: in every state of the cache, the root combined from the cached
\* subtrees and the overflow leaves equals the Merkle root computed from
\* scratch over the leaves appended so far, and the root a preview produces
\* for one more leaf equals the root from scratch over the leaves and it.
C1_IncrementalRootEqualsScratch ==
    mrStage = "ready" =>
        /\ root(mr) = MerkleRootFromScratch(dbRoots)
        /\ (mrLast.op = "preview" =>
              (~preview.err
                 /\ preview.mroot = MerkleRootFromScratch(Append(dbRoots, preview.h))))

C1_Witness ==
    /\ mrStage = "ready"
    /\ mrLast.op = "preview"
    /\ Len(mr.cachedSubTrees) = 2
    /\ Len(mr.uncachedRoots) = 0
    /\ LET pair == <<preview.h, preview.h>> IN
          preview.mroot = << <<pair, pair>>, preview.h >>

\* C2: after a successful push of h made in the state in which h was
\* previewed, the root equals the previewed root.
C2_PreviewThenPush ==
    (mrStage = "ready"
       /\ mrLast.op = "push" /\ ~mrLast.err
       /\ preview.valid /\ ~preview.err
       /\ preview.h = mrLast.arg
       /\ preview.at + 1 = Len(dbRoots))
    => root(mr) = preview.mroot

C2_Witness ==
    /\ mrStage = "ready"
    /\ mrLast.op = "push" /\ ~mrLast.err
    /\ preview.valid /\ preview.h = mrLast.arg
    /\ preview.at + 1 = Len(dbRoots)
    /\ Len(mr.uncachedRoots) = 0
    /\ Len(mr.cachedSubTrees) = 2
    /\ root(mr) = preview.mroot

\* C3: a preview step changes neither the cached subtrees, the overflow
\* list, the leaf count nor the persisted roots.
C3_PreviewMutatesNothing ==
    [][mrLast'.op = "preview" => (mr' = mr /\ dbRoots' = dbRoots)]_vars

C3_Witness ==
    /\ mrLast.op = "preview"
    /\ preview.valid /\ ~preview.err
    /\ Len(mr.cachedSubTrees) >= 1
    /\ Len(mr.uncachedRoots) >= 1

\* C4: the overflow list always holds fewer than merkleRootsPerCache roots
\* (push never halts on a full list), and a successful push that leaves it
\* empty has folded the last merkleRootsPerCache leaves into one new cached
\* subtree.
C4_OverflowBelowK ==
    /\ mrStage # "halted"
    /\ Len(mr.uncachedRoots) < merkleRootsPerCache
    /\ ((mrStage = "ready" /\ mrLast.op = "push" /\ ~mrLast.err
            /\ Len(dbRoots) % merkleRootsPerCache = 0) =>
          (mr.uncachedRoots = <<>>
             /\ Len(mr.cachedSubTrees) = Len(dbRoots) \div merkleRootsPerCache
             /\ mr.cachedSubTrees[Len(mr.cachedSubTrees)] =
                   newCachedSubTree(Block(dbRoots, Len(mr.cachedSubTrees)))))

C4_Witness ==
    /\ mrStage = "ready"
    /\ mrLast.op = "push" /\ ~mrLast.err
    /\ mr.uncachedRoots = <<>>
    /\ Len(mr.cachedSubTrees) = 2

\* C5: the leaf count equals merkleRootsPerCache times the number of cached
\* subtrees plus the length of the overflow list.
C5_LeafCount ==
    mrStage = "ready" =>
        mr.numMerkleRoots =
            merkleRootsPerCache * Len(mr.cachedSubTrees) + Len(mr.uncachedRoots)

C5_Witness ==
    /\ mrStage = "ready"
    /\ mrLast.op = "push" /\ mrLast.err
    /\ Len(mr.cachedSubTrees) >= 1
    /\ Len(mr.uncachedRoots) >= 1
    /\ mr.numMerkleRoots = Len(dbRoots)

\* The cached subtrees and the overflow list hold the leaves d in order.
InAppendOrder(m, d) ==
    /\ \A i \in 1..Len(m.cachedSubTrees) :
          /\ i * merkleRootsPerCache <= Len(d)
          /\ m.cachedSubTrees[i] =
                [height |-> merkleRootsCacheHeight + sectorHeight,
                 sum |-> MerkleRootFromScratch(Block(d, i))]
    /\ m.uncachedRoots =
          SubSeq(d, merkleRootsPerCache * Len(m.cachedSubTrees) + 1, Len(d))

\* C6: in every step the leaf count does not decrease, the persisted leaves
\* and the cached subtrees only grow at their end (an existing cached
\* subtree keeps its height and root), and the cache holds the leaves in the
\* order they were appended.
AppendOnlyStep ==
    /\ mr'.numMerkleRoots >= mr.numMerkleRoots
    /\ IsPrefix(dbRoots, dbRoots')
    /\ IsPrefix(mr.cachedSubTrees, mr'.cachedSubTrees)
    /\ (mrStage' = "ready" => InAppendOrder(mr', dbRoots'))

C6_AppendOnly == [][AppendOnlyStep]_vars

C6_Witness ==
    /\ mrStage = "ready"
    /\ mrLast.op = "push" /\ ~mrLast.err
    /\ Len(mr.cachedSubTrees) = 2
    /\ Len(mr.uncachedRoots) = 1

(***************************************************************************)
(* Claims about the storage manager                                        *)
(***************************************************************************)
Live(id) == dbSectors[id].count > 0

Slot(rec) == <<rec.folder, rec.index>>

\* No caller is inside a call
Quiescent == \A t \in Threads : th[t].pc \in {"idle", "ret", "off"}

\* Thread t has selected a slot for a new sector that is not yet recorded
Selecting(t) ==
    /\ th[t].op = "add" /\ th[t].physical
    /\ th[t].pc \in {"intent", "write", "meta"}

\* C7: at no time do two live sectors, or a live sector and a slot selected
\* for a new sector, or two selected slots, share a (folder, slot) pair; and
\* when no call is in progress the reference count of every sector id equals
\* the successful adds minus the successful deletes of that id.
C7_RefCountsAndSlots ==
    /\ \A a, b \in Ids :
          (a # b /\ Live(a) /\ Live(b)) => Slot(dbSectors[a]) # Slot(dbSectors[b])
    /\ \A t \in Threads : \A a \in Ids :
          (Selecting(t) /\ Live(a)) => Slot(th[t]) # Slot(dbSectors[a])
    /\ \A t, u \in Threads :
          (t # u /\ Selecting(t) /\ Selecting(u)) => Slot(th[t]) # Slot(th[u])
    /\ Quiescent => \A id \in Ids : dbSectors[id].count = hist.net[id]

C7_Witness ==
    /\ th[1].pc = "ret" /\ th[1].op = "add" /\ th[1].err = "none" /\ th[1].physical
    /\ th[2].pc = "ret" /\ th[2].op = "del" /\ th[2].err = "none" /\ th[2].id # th[1].id
    /\ th[2].old.count = 2
    /\ Slot(th[2].old)[1] = th[1].folder
    /\ dbSectors[th[1].id].count = 1
    /\ dbSectors[th[2].id].count = 1
    /\ hist.net[th[1].id] = 1 /\ hist.net[th[2].id] = 1

\* The usage of every folder, in memory and in the database
Usage == [f \in Folders |-> <<folders[f].usage, folders[f].storedSectors,
                               dbFolders[f].usage, dbFolders[f].storedSectors>>]

\* A step of a call of thread t that works on a stored sector without
\* removing it
VirtualStep(t) ==
    /\ th[t].pc \in {"intent", "write", "meta", "complete", "release"}
    /\ th[t].err = "none"
    /\ ~th[t].physical
    /\ th'[t].pc # th[t].pc

SectorRefStep ==
    /\ \A t \in Threads :
          \* an add of a stored id does not select a slot
          /\ (th[t].pc = "lookup" /\ th[t].op = "add" /\ th'[t].pc # "lookup"
                /\ Live(th[t].id)) =>
                (th'[t].pc = "intent" /\ ~th'[t].physical
                   /\ Slot(th'[t]) = Slot(dbSectors[th[t].id]))
          \* no slot is consumed or freed and nothing is written to a data file
          /\ VirtualStep(t) =>
                /\ extent' = extent
                /\ Usage' = Usage
                /\ Slot(dbSectors'[th[t].id]) = Slot(dbSectors[th[t].id])
                /\ extent[th[t].folder][th[t].index] = th[t].id
                /\ Live(th[t].id)'
    /\ \A id \in Ids :
          \* an add of a stored id raises the count by one
          /\ (Live(id) /\ dbSectors'[id].count > dbSectors[id].count) =>
                dbSectors'[id] = [dbSectors[id] EXCEPT !.count = @ + 1]
          \* a delete lowers the count by one; the record and the slot go
          \* only with the last reference
          /\ (dbSectors'[id].count < dbSectors[id].count) =>
                IF dbSectors[id].count > 1
                THEN dbSectors'[id] = [dbSectors[id] EXCEPT !.count = @ - 1]
                ELSE /\ dbSectors'[id] = NoRec
                     /\ dbSectors[id].index \notin dbFolders'[dbSectors[id].folder].usage
    /\ \A f \in Folders : \A i \in dbFolders[f].usage :
          \* a slot is freed only when the count of its sector reaches zero
          (i \notin dbFolders'[f].usage) =>
             \E id \in Ids : /\ dbSectors[id] = [folder |-> f, index |-> i, count |-> 1]
                             /\ dbSectors'[id] = NoRec

\* C8: an add of a stored id selects no slot, writes nothing to a data file
\* and raises the count by one; a delete that leaves other references keeps
\* the record, the slot and its content; the slot is freed and the record
\* removed only by the delete of the last reference.
C8_DedupAndRefCount == [][SectorRefStep]_vars

C8_Witness ==
    \E t \in Threads :
        /\ th[t].pc = "ret" /\ th[t].op = "del" /\ th[t].err = "none"
        /\ th[t].old.count = 2
        /\ dbSectors[th[t].id] = [th[t].old EXCEPT !.count = 1]
        /\ extent[th[t].folder][th[t].index] = th[t].id
        /\ th[t].index \in dbFolders[th[t].folder].usage
        /\ dbFolders[th[t].folder].storedSectors = 1

\* C9: with one caller and one registered folder, a slot is selected for a
\* new sector only while the folder is not full, the folder never holds more
\* sectors than its capacity, and an add of a new sector fails (with
\* errAllFoldersFullOrUsed) only when the folder is full; otherwise it
\* succeeds and the sector is stored.
C9_CapacityOfOneFolder ==
    LET sf == folders[1] IN
    /\ sf.storedSectors <= sf.numSectors
    /\ sf.storedSectors = Cardinality({id \in Ids : Live(id)})
    /\ Selecting(1) => sf.storedSectors < sf.numSectors
    /\ (th[1].pc = "ret" /\ th[1].op = "add") =>
          /\ th[1].err \in {"none", "full"}
          /\ th[1].err = "full" => (th[1].physical /\ sf.storedSectors = sf.numSectors)
          /\ th[1].err = "none" => (Live(th[1].id) /\ dbSectors[th[1].id].folder = 1)

C9_Witness ==
    /\ hist.capFailed
    /\ th[1].pc = "ret" /\ th[1].op = "add" /\ th[1].physical /\ th[1].err = "none"
    /\ folders[1].numSectors = MaxCap
    /\ folders[1].storedSectors = MaxCap

\* Every used slot of the database belongs to exactly one sector record and
\* every sector record has its slot marked used
NoDanglingSlot ==
    /\ \A f \in Folders :
          /\ dbFolders[f].storedSectors = Cardinality(dbFolders[f].usage)
          /\ \A i \in dbFolders[f].usage :
                Cardinality({id \in Ids : Live(id) /\ Slot(dbSectors[id]) = <<f, i>>}) = 1
    /\ \A id \in Ids :
          Live(id) => dbSectors[id].index \in dbFolders[dbSectors[id].folder].usage

\* Once Start has returned, every transaction of the log belongs to a call in
\* progress or to a recovery in progress, every lock has such a holder, and
\* the folders in memory have the usage of the database
NoOrphanTxn ==
    smState = "running" =>
        /\ \A k \in 1..Len(wal) :
              \/ wal[k] \in recRunning
              \/ \E t \in Threads : InLog(t) /\ th[t].id = wal[k].id
        /\ \A id \in Ids :
              sectorLocks[id] = RecoveryHolder => \E x \in recRunning : x.id = id
        /\ \A f \in Folders :
              /\ folders[f].lock = RecoveryHolder =>
                    \E x \in recRunning : x.physical /\ x.folder = f
              /\ folders[f].usage = dbFolders[f].usage
              /\ folders[f].storedSectors = dbFolders[f].storedSectors

\* The state after the recovery of x is the state before the transaction
RolledBack(x) ==
    /\ dbSectors'[x.id] = x.prev
    /\ x.physical => ((x.index \in dbFolders'[x.folder].usage) <=> (x.kind = "del"))

\* The state after the recovery of x is the state after the transaction
FullyCommitted(x) ==
    /\ dbSectors'[x.id] = NewRec(x)
    /\ x.physical => ((x.index \in dbFolders'[x.folder].usage) <=> (x.kind = "add"))
    /\ x.kind = "add" => extent'[x.folder][x.index] = x.id

RecoveryStep ==
    /\ NoDanglingSlot'
    /\ NoOrphanTxn'
    /\ \A x \in recRunning :
          (x \notin recRunning' /\ smState' # "down") =>
             /\ RolledBack(x) \/ FullyCommitted(x)
             /\ \A k \in 1..Len(wal') : wal'[k].id # x.id
             /\ sectorLocks'[x.id] = 0
             /\ x.physical => folders'[x.folder].lock = 0

LogPos(x) == CHOOSE k \in 1..Len(wal) : wal[k] = x

\* Two transactions touch the same resource: the same sector or, when both
\* are physical, the same folder
SameResource(x, y) ==
    \/ x.id = y.id
    \/ x.physical /\ y.physical /\ x.folder = y.folder

\* Start locks the resource of x
ReverseOrderStep ==
    \A x \in recRunning' \ recRunning :
        \* the transactions Start has not reached yet were logged before x
        /\ \A k \in 1..Len(recTodo') : LogPos(recTodo'[k]) < LogPos(x)
        \* the transactions locked before x were logged after x
        /\ \A y \in recRunning : LogPos(y) > LogPos(x)
        \* no transaction on the resource of x is still being reverted
        /\ \A y \in recRunning : ~SameResource(x, y)

SkipStep ==
    (/\ smState = "starting"
     /\ recTodo # <<>>
     /\ ~decodable(recTodo[Len(recTodo)])
     /\ recTodo' # recTodo
     /\ hist'.crashes = hist.crashes) =>
        /\ smState' = "starting"
        /\ recTodo' = SubSeq(recTodo, 1, Len(recTodo) - 1)
        /\ UNCHANGED <<folders, dbFolders, dbSectors, extent, wal, sectorLocks, recRunning>>

\* Start has returned: every entry of the log that can be decoded has been
\* reverted or is being reverted, or belongs to a call in progress
OthersProcessed ==
    smState = "running" =>
        \A k \in 1..Len(wal) :
            decodable(wal[k]) =>
                \/ wal[k] \in recRunning
                \/ \E t \in Threads : InLog(t) /\ th[t].id = wal[k].id

HoldsSector(t, id) ==
    /\ th[t].id = id
    /\ th[t].pc \notin {"idle", "off", "rlock", "begin", "ret"}

\* Thread t is inside a call that has taken folder f
HoldsFolder(t, f) ==
    /\ th[t].folder = f /\ th[t].physical
    /\ th[t].pc \in {"intent", "write", "meta", "complete", "release"}

C14_TargetByTransactionState ==
    \A x \in recRunning :
        recoverTarget(x) = IF x.committed THEN targetRecoverCommitted
                           ELSE targetRecoverUncommitted

\* A transaction that terminated after step (1), before its physical write, is
\* under recovery
C14_Witness ==
    \E x \in recRunning :
        /\ ~x.committed
        /\ hist.crashed[x.id] = "write"
        /\ recoverTarget(x) = targetRecoverCommitted

\* The free-slot state of every folder is sound: the used slots are the slots
\* of the stored sectors, one sector each, all within the folder
FreeSlotsSound ==
    \A g \in Folders :
        LET stored == {id \in Ids : Live(id) /\ dbSectors[id].folder = g} IN
        /\ folders[g].usage = {dbSectors[id].index : id \in stored}
        /\ folders[g].storedSectors = Cardinality(stored)
        /\ folders[g].usage \subseteq 0..(folders[g].numSectors - 1)
        /\ dbFolders[g] = FolderRecord(folders[g])

\* A step of a ResizeFolder of thread t changes another folder only by the
\* slot of a sector it moves there, or, when the evacuation fails, by taking
\* back the sectors it moved there
ResizeKeepsOthers ==
    \A t \in Threads :
        (th[t].op = "resize" /\ th[t].pc \in {"wlock", "crit", "evacuate", "wunlock"}
           /\ th'[t] # th[t]) =>
            \A g \in Folders \ {th[t].folder} :
              IF th[t].pc = "evacuate" /\ th'[t].err = "full"
              THEN folders'[g] = th[t].undo.folders[g]
              ELSE
                /\ folders[g].usage \subseteq folders'[g].usage
                /\ \A i \in folders'[g].usage \ folders[g].usage :
                      \E id \in Ids :
                          /\ dbSectors[id].folder = th[t].folder
                          /\ dbSectors'[id] = [dbSectors[id] EXCEPT !.folder = g, !.index = i]
                /\ folders'[g].numSectors = folders[g].numSectors
                /\ folders'[g].status = folders[g].status
                /\ folders'[g].lock = folders[g].lock

\* A call is in progress
InCall(t) == th[t].pc \notin {"idle", "ret", "off"}

\* C16: with calls of ResizeFolder and AddSector running concurrently, every
\* call eventually returns, the free-slot state of every folder stays sound,
\* and a ResizeFolder changes the folders it does not resize only by the
\* slots of the sectors it moves there.
C16_ResizeWithAdds ==
    /\ []FreeSlotsSound
    /\ [][ResizeKeepsOthers]_vars
    /\ \A t \in Threads : InCall(t) ~> (th[t].pc = "ret")

C16_Witness ==
    \E t, u \in Threads :
        /\ th[t].op = "resize" /\ th[t].pc = "wunlock" /\ th[t].err = "none"
        /\ th[t].res >= 1
        /\ th[u].op = "add" /\ th[u].pc = "rlock"
        /\ \E id \in Ids : Live(id) /\ dbSectors[id].folder # th[t].folder

HoldsGlobalLock(t) == t \in smLock.r \/ smLock.w = t

HoldsFolderLock(t) == \E f \in Folders : folders[f].lock = t

HoldsSectorLock(t) == \E id \in Ids : sectorLocks[id] = t

\* A step in which a thread takes a lock respects the hierarchy
LockOrderStep ==
    \A t \in Threads :
        /\ (HoldsGlobalLock(t)' /\ ~HoldsGlobalLock(t)) =>
              (~HoldsFolderLock(t) /\ ~HoldsSectorLock(t))
        /\ (\E f \in Folders : folders'[f].lock = t /\ folders[f].lock # t) =>
              (HoldsGlobalLock(t) /\ ~HoldsSectorLock(t))
        /\ (\E id \in Ids : sectorLocks'[id] = t /\ sectorLocks[id] # t) =>
              HoldsGlobalLock(t)

\* C15: every thread takes its locks in the order global lock, folder lock,
\* sector lock: it takes the global lock while it holds no other lock, and a
\* folder lock while it holds the global lock and no sector lock.
C15_LockHierarchy == [][LockOrderStep]_vars

\* An AddSector of a new sector has taken a folder while it holds the lock of
\* its sector
C15_Witness ==
    \E t \in Threads :
        /\ th[t].op = "add" /\ th[t].physical /\ th[t].pc = "intent"
        /\ sectorLocks[th[t].id] = t
        /\ folders[th[t].folder].lock = t
        /\ t \in smLock.r

\* The thread is inside the section of a folder operation under sm.lock
InExclusive(t) == th[t].pc \in {"crit", "evacuate", "shrunk", "wunlock"}

\* The thread is inside a sector operation, between RLock and RUnlock
InShared(t) ==
    th[t].pc \in {"addfolder", "begin", "lookup", "lockFolder", "select", "backoff", "intent",
                  "write", "meta", "complete", "release"}

PassAdvances ==
    \A t \in Threads :
        (th[t].pc = "select" /\ th'[t] # th[t]) =>
            \/ th'[t].pc # "select"
            \/ (th'[t].scan \subseteq th[t].scan /\ th'[t].scan # th[t].scan)

\* A thread inside a selection pass can take its next step
PassNotBlocked ==
    \A t \in Threads :
        th[t].pc = "select" =>
            ENABLED (SelectFolderVisit(t) \/ SelectPassFails(t))

\* C18: a thread inside a selection pass can always take its next step,
\* whoever holds the folder locks, and every step visits one more folder or
\* ends the pass: selectFolderToAdd never waits for a folder lock.
C18_SelectionNeverBlocks == [][PassAdvances /\ PassNotBlocked']_vars

\* A pass has ended without a folder although every registered folder is
\* available and has a free slot: all of them are locked by another caller
C18_Witness ==
    \E t \in Threads :
        /\ th[t].pc = "backoff"
        /\ Registered # {}
        /\ \A f \in Registered :
              /\ folders[f].lock \notin {0, t}
              /\ folders[f].status = folderAvailable
              /\ freeSectorIndexes(folders[f]) # {}

\* selectFolderToAdd returns a folder and an index to thread t
SelectSucceeds(t) == th[t].pc = "select" /\ th'[t].pc = "intent"

\* C19: the folder selectFolderToAdd returns is registered and available, was
\* not locked when it was visited and is now locked by the caller; the index
\* is within the folder, is not used, and no stored sector has it.
C19_SelectedFolderAndSlot ==
    [][\A t \in Threads :
          SelectSucceeds(t) =>
              LET f == th'[t].folder
                  i == th'[t].index
              IN /\ f \in Registered
                 /\ folders[f].status = folderAvailable
                 /\ folders[f].lock = 0
                 /\ folders'[f].lock = t
                 /\ i \in 0..(folders[f].numSectors - 1)
                 /\ i \notin folders[f].usage
                 /\ \A id \in Ids : Live(id) => Slot(dbSectors[id]) # <<f, i>>]_vars

C19_Witness ==
    \E t \in Threads :
        /\ th[t].pc = "intent" /\ th[t].op = "add" /\ th[t].physical
        /\ folders[th[t].folder].lock = t
        /\ \E id \in Ids : Live(id) /\ dbSectors[id].folder = th[t].folder
        /\ \E g \in Registered : folders[g].status = folderUnavailable

\* A step of selectFolderToAddWithRetry(RetryTimes); tries is the number of
\* passes that failed
RetryStep ==
    \A t \in Threads :
        \* a pass that finds no folder is followed by the wait
        /\ (th[t].pc = "select" /\ th'[t].pc \notin {"select", "intent"}) =>
              (th'[t].pc = "backoff" /\ th[t].scan = {} /\ th'[t].tries = th[t].tries)
        \* a pass that finds a folder returns it at once
        /\ SelectSucceeds(t) => (th'[t].err = "none" /\ th[t].tries < RetryTimes)
        \* after the wait: the next pass, at most RetryTimes passes in all
        /\ (th[t].pc = "backoff" /\ th'[t].pc = "select") =>
              (th'[t].tries = th[t].tries + 1 /\ th'[t].tries < RetryTimes)
        \* the error is returned only when RetryTimes passes have failed
        /\ (th[t].pc = "backoff" /\ th'[t].pc \notin {"backoff", "select"}) =>
              /\ th'[t].pc = "release"
              /\ th'[t].err = "full"
              /\ th[t].tries + 1 = RetryTimes
        /\ (th'[t].op = "add" /\ th'[t].err = "full") =>
              (th[t].err = "full" \/ th[t].pc = "backoff")

\* C20: selectFolderToAddWithRetry makes at most RetryTimes passes, waits
\* after every pass that fails, returns the folder of the first pass that
\* succeeds, and returns errAllFoldersFullOrUsed only when RetryTimes passes
\* have failed.
C20_BoundedRetry == [][RetryStep]_vars

C20_Witness ==
    \E t \in Threads :
        /\ hist.capFailed
        /\ th[t].pc = "intent" /\ th[t].physical
        /\ th[t].tries = RetryTimes - 1

\* C21: addFolder of a path that is registered returns an error and leaves
\* the folder stored under that path as it was.
C21_AddFolderRejectsDuplicate ==
    [][\A t \in Threads :
          (th[t].pc = "idle" /\ th'[t].pc = "ret" /\ th'[t].op = "addFolder"
             /\ folders[th'[t].folder].exists) =>
                (th'[t].err # "none" /\ folders' = folders)]_vars

\* addFolder has returned for a path that was registered with another size
C21_Witness ==
    \E t \in Threads :
        /\ th[t].pc = "ret" /\ th[t].op = "addFolder"
        /\ dbFolders[th[t].folder].exists
        /\ dbFolders[th[t].folder].numSectors # th[t].target

\* The registered folders are within the bounds
FolderBounds ==
    /\ \A f \in Registered :
          /\ folders[f].storedSectors <= folders[f].numSectors
          /\ minSectorsPerFolder <= folders[f].numSectors
          /\ folders[f].numSectors <= maxSectorsPerFolder
    /\ Cardinality(Registered) <= maxNumFolders

\* A ResizeFolder to a size outside the bounds returns an error at once and
\* changes no folder
ResizeRejectStep ==
    \A t \in Threads :
        (/\ th[t].pc = "idle" /\ th'[t].pc # "idle" /\ th'[t].op = "resize"
         /\ (th'[t].target < minSectorsPerFolder \/ th'[t].target > maxSectorsPerFolder)) =>
            /\ th'[t].pc = "ret" /\ th'[t].err = "size"
            /\ folders' = folders /\ dbFolders' = dbFolders

\* C22: whenever no folder operation is inside its locked section, every
\* registered folder has no more stored sectors than its size, a size between
\* minSectorsPerFolder and maxSectorsPerFolder, and at most maxNumFolders
\* folders are registered; a ResizeFolder to a size outside the bounds is
\* rejected and changes no folder.
C22_FolderBounds ==
    /\ [](smLock.w = 0 => FolderBounds)
    /\ [][ResizeRejectStep]_vars

\* A DeleteFolder has returned an error after it shrank the folder, which is
\* still registered, with no sectors
C22_Witness ==
    \E t \in Threads : \E f \in Registered :
        /\ th[t].pc = "ret" /\ th[t].op = "delfolder" /\ th[t].err = "io"
        /\ th[t].folder = f
        /\ folders[f].numSectors = 0
        /\ smLock.w = 0

\* The free slots of the registered folders other than f
FreeSlotsOfOthers(f) ==
    {s \in (Registered \ {f}) \X (0..(MaxCap - 1)) :
        s[2] < folders[s[1]].numSectors /\ s[2] \notin folders[s[1]].usage}

\* The free slots of the other folders that a sector can be moved to
UsableSlotsOfOthers(f) ==
    {s \in FreeSlotsOfOthers(f) : folders[s[1]].status = folderAvailable}

\* validateShrink fails exactly when the stored sectors of the folder exceed
\* the target plus the free sectors of the other registered folders
ValidateShrinkExact ==
    \A f \in Registered : \A n \in 0..MaxCap :
        ~validateShrink(folders, f, n) <=>
            folders[f].storedSectors > n + Cardinality(FreeSlotsOfOthers(f))

\* The step of a shrink or a delete whose validation fails ends the call with
\* the error and changes no folder, no sector record and no data file
ShrinkRejectedStep ==
    \A t \in Threads :
        (/\ th[t].pc = "crit" /\ th[t].op \in {"resize", "delfolder"}
         /\ th'[t] # th[t]
         /\ folders[th[t].folder].exists
         /\ th[t].target < folders[th[t].folder].numSectors
         /\ ~validateShrink(folders, th[t].folder, th[t].target)) =>
            /\ th'[t].pc = "wunlock" /\ th'[t].err = "space"
            /\ folders' = folders /\ dbFolders' = dbFolders
            /\ dbSectors' = dbSectors /\ extent' = extent

\* When the validation has passed, the sectors to evacuate fit into the other
\* folders
PassedShrinkFits ==
    \A t \in Threads :
        (th[t].pc = "evacuate" /\ th[t].res = 0) =>
            Cardinality(ToEvacuate(th[t].folder, th[t].target))
                <= Cardinality(UsableSlotsOfOthers(th[t].folder))

DeleteSucceeds(t) ==
    th[t].op = "delfolder" /\ th[t].pc = "wunlock" /\ th[t].err = "none"

\* The sectors folder f held when the evacuation of thread t started
HeldBefore(t, f) ==
    IF th[t].undo = <<>> THEN {}
    ELSE {id \in Ids : th[t].undo.dbSectors[id].count > 0
                       /\ th[t].undo.dbSectors[id].folder = f}

\* C24: when DeleteFolder returns success for a registered path, the folder
\* is neither in the folder manager nor in the database, Folders() does not
\* list it, and every sector it held is stored in another folder; for a
\* folder without stored sectors nothing is moved and the folder is removed.
C24_DeleteFolderDestroys ==
    \A t \in Threads :
        DeleteSucceeds(t) =>
            LET f == th[t].folder IN
            /\ ~folders[f].exists
            /\ ~dbFolders[f].exists
            /\ f \notin Registered
            /\ \A id \in Ids : Live(id) => dbSectors[id].folder # f
            /\ \A id \in HeldBefore(t, f) :
                  /\ Live(id)
                  /\ dbSectors[id].count = th[t].undo.dbSectors[id].count
                  /\ extent[dbSectors[id].folder][dbSectors[id].index] = id
            /\ (HeldBefore(t, f) = {}) => th[t].res = 0

\* DeleteFolder returns success for a registered folder of zero sectors, which
\* it has not removed
C24_Witness ==
    \E t \in Threads :
        /\ DeleteSucceeds(t)
        /\ folders[th[t].folder].exists
        /\ folders[th[t].folder].numSectors = 0
        /\ dbFolders[th[t].folder].exists

\* A shrink or a delete of thread t that started to evacuate is about to
\* return an error
ShrinkFailed(t) ==
    /\ th[t].op \in {"resize", "delfolder"} /\ th[t].pc = "wunlock"
    /\ th[t].err # "none" /\ th[t].undo # <<>>

\* C25: when a shrinking ResizeFolder or a DeleteFolder returns an error
\* after it started, the folder is as it was before the call: registered in
\* memory and database with the same size, the same sectors in the same
\* slots, and the same data file.
C25_FailedShrinkRestores ==
    \A t \in Threads :
        ShrinkFailed(t) =>
            LET f == th[t].folder
                before == th[t].undo
            IN /\ folders[f] = before.folders[f]
               /\ dbFolders[f] = FolderRecord(before.folders[f])
               /\ \A id \in HeldBefore(t, f) : dbSectors[id] = before.dbSectors[id]
               /\ extent[f] = before.extent[f]

\* A DeleteFolder returns the error of the database after it shrank the folder
C25_Witness ==
    \E t \in Threads :
        /\ ShrinkFailed(t) /\ th[t].op = "delfolder" /\ th[t].err = "io"
        /\ folders[th[t].folder].exists
        /\ folders[th[t].folder].numSectors # th[t].undo.folders[th[t].folder].numSectors

\* The folders selectFolderToAdd can return: registered, available, unlocked,
\* with a free slot that the lookup finds
Selectable ==
    {g \in Registered :
        /\ folders[g].status = folderAvailable
        /\ folders[g].lock = 0
        /\ freeSectorIndexes(folders[g]) # {}
        /\ ~freeSectorIndexFails(g)}

\* C26: a folder whose free-slot lookup fails with an error other than
\* errFolderAlreadyFull is skipped: the add does not fail with that error
\* while another registered, available, unlocked folder has a free slot.
C26_FailedFolderSkipped ==
    \A t \in Threads :
        (th[t].op = "add" /\ th[t].pc = "release" /\ th[t].err = "fault") =>
            Selectable = {}

\* An add has failed with the error of a folder while another folder could
\* take the sector
C26_Witness ==
    \E t \in Threads :
        /\ th[t].op = "add" /\ th[t].pc = "release" /\ th[t].err = "fault"
        /\ Selectable # {}
        /\ hist.faulty # {}

(***************************************************************************)
(* Claims about VerifyRevision, segmentHealth and the FileSet              *)
(***************************************************************************)
\* C27: a revision VerifyRevision accepts takes from the valid proof output
\* of the client at least the expected exchange and exactly what it adds to
\* the valid proof output of the host, whatever the size of the values.
C27_RevisionPaysHost ==
    (revision.stage = "verified" /\ revision.err = "nil") =>
        LET r == revision.in IN
        /\ r.oldClient - r.newClient >= r.expectedExchange
        /\ r.oldClient - r.newClient = r.newHost - r.oldHost

\* An accepted revision whose client output does not fit in the integer
\* Int64 returns and lost more than the host gained
C27_Witness ==
    /\ revision.stage = "verified" /\ revision.err = "nil"
    /\ revision.in.oldClient >= Pow2(IntBits - 1)
    /\ revision.in.oldClient - revision.in.newClient
          > revision.in.newHost - revision.in.oldHost

\* C28: for 0 <= g <= numSectors good sectors segmentHealth returns a score
\* in 0..200 that is below 100 exactly when g < minSectors and is 200 (not
\* stuck) exactly when all numSectors sectors are good; for g > numSectors
\* it panics.
C28_HealthClassifies ==
    segment.stage \in {"scored", "panic"} =>
        LET g == segment.in.goodSectors IN
        IF g > segment.in.numSectors THEN segment.stage = "panic"
        ELSE /\ segment.stage = "scored"
             /\ segment.score \in 0..200
             /\ segment.score < 100 <=> g < segment.in.minSectors
             /\ segment.score = 200 <=> g = segment.in.numSectors
             /\ ~isStuckHealth(segment.score) <=> g = segment.in.numSectors

\* A segment all of whose sectors are good and that needs all of them
C28_Witness ==
    /\ segment.stage = "scored"
    /\ segment.in.goodSectors = segment.in.numSectors
    /\ segment.in.minSectors = segment.in.numSectors
    /\ segment.score = 100

\* The handles not yet closed of the DxFile that is at a path
UnclosedHandlesAt(dxPath) ==
    {h \in fileSet.handles : /\ fileSet.entries[h.entry].path = dxPath
                             /\ ~fileSet.entries[h.entry].deleted}

\* A Close that takes an entry out of filesMap leaves its threadMap empty
ReleasedByCloseStep ==
    (fileSet'.last.op = "Close" /\ fileSet'.handles # fileSet.handles) =>
        \A dxPath \in (1..NumPaths) :
            (fileSet.filesMap[dxPath] # NoEntry
                /\ fileSet'.filesMap[dxPath] # fileSet.filesMap[dxPath])
            => fileSet'.entries[fileSet.filesMap[dxPath]].threadMap = {}

\* An Open of a path at which a handle is not closed returns that entry
OpenSharesStep ==
    (fileSet'.last.op = "Open" /\ fileSet'.last # fileSet.last) =>
        \A h \in UnclosedHandlesAt(fileSet'.last.path) :
            /\ fileSet'.last.err = "none"
            /\ fileSet'.last.entry = h.entry

\* Every entry of filesMap has a handle that is not closed
AllClosedReleased ==
    \A dxPath \in (1..NumPaths) :
        fileSet.filesMap[dxPath] # NoEntry =>
            \E h \in fileSet.handles : h.entry = fileSet.filesMap[dxPath]

\* C29: closing a handle takes an entry out of filesMap only when its
\* threadMap is empty; while a handle obtained by NewDxFile, Open or
\* CopyEntry is not closed, Open of the same path returns a handle of the same
\* entry; and an entry all of whose handles are closed is not in filesMap.
C29_EntryShared ==
    /\ [][ReleasedByCloseStep]_vars
    /\ [][OpenSharesStep]_vars
    /\ []AllClosedReleased

\* Open has returned an entry while a handle of another entry of the same
\* path, obtained earlier, is not closed
C29_Witness ==
    /\ fileSet.stage = "open"
    /\ fileSet.last.op = "Open" /\ fileSet.last.err = "none"
    /\ \E h \in UnclosedHandlesAt(fileSet.last.path) :
          h.entry < fileSet.last.entry


(***************************************************************************)
(* Claims about the dispatch of ResizeFolder and the selection's locks     *)
(***************************************************************************)
\* The step of ResizeFolder that looks the folder up and dispatches
DispatchStep(t) ==
    (th[t].op = "resize" /\ th[t].pc = "crit" /\ th'[t] # th[t]) =>
        LET f == th[t].folder
            n == th[t].target
            sf == folders[f]
            rest == \A g \in Folders \ {f} : folders'[g] = folders[g]
        IN IF ~sf.exists
           THEN /\ th'[t].pc = "wunlock" /\ th'[t].err = "notfound"
                /\ UNCHANGED <<folders, dbFolders, dbSectors, extent>>
           ELSE IF n = sf.numSectors
           THEN /\ th'[t].pc = "wunlock" /\ th'[t].err = "none"
                /\ UNCHANGED <<folders, dbFolders, dbSectors, extent>>
           ELSE IF n > sf.numSectors
           THEN /\ th'[t].pc = "wunlock"
                /\ folders'[f].numSectors >= sf.numSectors
                /\ th'[t].err = "none" => folders'[f].numSectors = n
                /\ folders'[f].usage = sf.usage
                /\ rest
                /\ UNCHANGED <<dbSectors, extent>>
           ELSE /\ th'[t].pc \in {"evacuate", "wunlock"}
                /\ folders'[f].numSectors <= sf.numSectors

\* The steps of a shrinking ResizeFolder never grow the folder
ShrinkingStep(t) ==
    (th[t].op = "resize" /\ th[t].pc = "evacuate") =>
        /\ th[t].target < th[t].undo.folders[th[t].folder].numSectors
        /\ folders'[th[t].folder].numSectors <= folders[th[t].folder].numSectors
        /\ (th'[t].pc = "wunlock" /\ th'[t].err = "none")
              => folders'[th[t].folder].numSectors = th[t].target

SelectLocksStep(t) ==
    /\ (th[t].pc = "select" /\ th'[t].pc = "select") => t \in fmLock'.r
    /\ (th[t].pc = "select" /\ th'[t].pc = "intent") =>
          /\ {g \in Folders : folders'[g].lock = t} = {th'[t].folder}
          /\ t \notin fmLock'.r
    /\ (th[t].pc = "select" /\ th'[t].pc = "backoff") =>
          /\ {g \in Folders : folders'[g].lock = t} = {}
          /\ t \notin fmLock'.r

\* C32: when selectFolderToAdd returns a folder the caller holds the lock of
\* that folder and of no other folder; when it returns an error the caller
\* holds no folder lock; in both cases fm.lock is no longer read-locked by
\* the caller, which holds it during the pass.
C32_SelectLockDiscipline ==
    /\ [][\A t \in Threads : SelectLocksStep(t)]_vars
    /\ [](\A t \in Threads : t \in fmLock.r <=> th[t].pc = "select")

\* A selection has returned a folder after it passed over another registered
\* folder whose lock another caller holds
C32_Witness ==
    \E t \in Threads :
        /\ th[t].pc = "intent" /\ th[t].physical
        /\ folders[th[t].folder].lock = t
        /\ t \notin fmLock.r
        /\ \E g \in Folders \ {th[t].folder} :
              folders[g].exists /\ folders[g].lock \notin {0, t}


\* C33: for every retryTimes, selectFolderToAddWithRetry makes at most
\* retryTimes passes, and when it returns no error it returns a folder
\* that the caller has locked.
C33_RetryReturnsFolder ==
    \A t \in Threads :
        th[t].op = "select" =>
            /\ th[t].pc = "select" => th[t].tries + 1 <= th[t].target
            /\ (th[t].pc \in {"returned", "intent"} /\ th[t].err = "none") =>
                  /\ th[t].folder \in Registered
                  /\ folders[th[t].folder].lock = t

\* selectFolderToAddWithRetry(0) has returned: no pass, no folder, no error
C33_Witness ==
    \E t \in Threads :
        /\ th[t].op = "select" /\ th[t].pc = "returned"
        /\ th[t].target = 0 /\ th[t].err = "none" /\ th[t].folder = 0


\* C34: when getFolders has returned, with the folders locked or with the
\* folder-not-exist error, the caller is not a reader of fm.lock, so that
\* close can take the lock once no call is running; when it has returned the
\* error the caller holds no folder lock.
C34_GetFoldersReleasesLock ==
    /\ \A t \in Threads :
          (th[t].op = "getFolders" /\ th[t].pc = "returned") =>
              /\ t \notin fmLock.r
              /\ th[t].err = "notexist" => \A f \in Folders : folders[f].lock # t
    /\ (\A t \in Threads : th[t].pc = "idle") => ENABLED close(1)

\* getFolders has returned the folder-not-exist error for a list that names
\* a registered and an unregistered path
C34_Witness ==
    \E t \in Threads :
        /\ th[t].op = "getFolders" /\ th[t].pc = "returned" /\ th[t].err = "notexist"
        /\ \A f \in Folders : folders[f].lock # t


(***************************************************************************)
(* Claims about the threads of recovery                                    *)
(***************************************************************************)
\* C35: every thread Start has added for a recovered transaction is done or
\* has a goroutine running that will call tm.Done, also when the resource of
\* the update could not be locked, so that a Close issued after Start, when
\* the goroutines have ended, is not kept waiting by tm.Stop.
C35_RecoveryThreadsBalanced ==
    /\ tm = Cardinality(recRunning)
    /\ (smState = "running" /\ recRunning = {}
          /\ \A t \in Threads : th[t].pc \in {"idle", "off"}) => ENABLED smClose

\* Start has returned, every goroutine has ended, and a thread added for a
\* transaction whose resource could not be locked is not done
C35_Witness ==
    /\ smState = "running" /\ recRunning = {} /\ tm > 0
    /\ wal # <<>>


\* A push that returns an error has changed neither the memory nor the
\* persisted roots; a push that changed the memory has stored its root.
StoreFirstStep ==
    mrLast'.op = "push" =>
        /\ mrLast'.err => (mr' = mr /\ dbRoots' = dbRoots /\ mrStage' = "ready")
        /\ mr' # mr => (~mrLast'.err /\ dbRoots' = Append(dbRoots, mrLast'.arg))

\* C36: push changes the memory only after the root is stored, and a failed
\* store leaves the cached subtrees, the overflow list and the leaf count
\* unchanged and returns the error; the number of persisted roots equals the
\* leaf count in every state of the cache, where roots() returns the
\* persisted roots; and roots() halts exactly when the number of roots it
\* fetched differs from the leaf count.
C36_StoreBeforeMemory ==
    /\ [][StoreFirstStep]_vars
    /\ [](mrStage = "ready" =>
            /\ Len(dbRoots) = mr.numMerkleRoots
            /\ roots(mr, dbRoots, TRUE) = [roots |-> dbRoots, err |-> FALSE, crit |-> FALSE]
            /\ \A db \in SeqsUpTo(Hashes, MaxLeaves) :
                  /\ roots(mr, db, TRUE).crit <=> Len(db) # mr.numMerkleRoots
                  /\ ~roots(mr, db, FALSE).crit)

C36_Witness ==
    /\ mrStage = "ready"
    /\ mrLast.op = "push" /\ mrLast.err
    /\ Len(mr.uncachedRoots) = merkleRootsPerCache - 1
    /\ mr.numMerkleRoots = MaxLeaves - 2
    /\ roots(mr, Append(dbRoots, mrLast.arg), TRUE).crit


\* The cache and the database after pushing rs[i], rs[i+1], ... one by one,
\* every store succeeding.
RECURSIVE pushAllFrom(_, _, _, _)
pushAllFrom(m, db, rs, i) ==
    IF i > Len(rs) THEN [mr |-> m, db |-> db, crit |-> FALSE]
    ELSE LET r == push(m, db, rs[i], TRUE) IN
         IF r.crit \/ r.err THEN [mr |-> r.mr, db |-> r.db, crit |-> TRUE]
         ELSE pushAllFrom(r.mr, r.db, rs, i + 1)

\* C37: the cache loaded from a list of roots has the cached subtrees, the
\* overflow list and the leaf count of the cache built by pushing the same
\* roots one by one onto an empty cache, hence the same preview root for
\* every extra hash; and in every state, however it was reached by loading
\* and pushing, the cache is the one loadMerkleRoots builds from the
\* persisted roots.
C37_LoadEqualsIncremental ==
    mrStage = "ready" =>
        LET built == pushAllFrom(newMerkleRoots, <<>>, dbRoots, 1)
            loaded == loadMerkleRoots(dbRoots)
        IN /\ ~built.crit
           /\ built.db = dbRoots
           /\ loaded.cachedSubTrees = built.mr.cachedSubTrees
           /\ loaded.uncachedRoots = built.mr.uncachedRoots
           /\ loaded.numMerkleRoots = built.mr.numMerkleRoots
           /\ \A h \in Hashes :
                 newMerkleRootPreview(loaded, h) = newMerkleRootPreview(built.mr, h)
           /\ mr = loaded

C37_Witness ==
    /\ mrStage = "ready"
    /\ mrLast.op = "load"
    /\ Len(dbRoots) = MaxLeaves
    /\ Len(mr.cachedSubTrees) = MaxLeaves \div merkleRootsPerCache
    /\ Len(mr.uncachedRoots) = MaxLeaves % merkleRootsPerCache
    /\ mr = pushAllFrom(newMerkleRoots, <<>>, dbRoots, 1).mr


\* The request of the run was decoded, its storage responsibility was found,
\* and one of its actions has an unknown type.
UnknownActionRun ==
    /\ upload.pc \in {"waitSign", "waitCommit", "ack", "done"}
    /\ upload.ret # "getStorageResponsibility"
    /\ \E i \in 1..Len(upload.Actions) : upload.Actions[i].Type = "unknown"

\* C38: a run of UploadHandler whose request holds an action of unknown type
\* has returned with the host negotiate error, which the host reports to the
\* client; it has sent no Merkle proof, has not signed the revision, and has
\* not modified the stored storage responsibility.
C38_UnknownActionAborts ==
    UnknownActionRun =>
        /\ upload.pc = "done"
        /\ upload.hostNegotiateErr
        /\ upload.sent = <<"HostNegotiateErrorMsg">>
        /\ ~upload.signed
        /\ ~upload.modified
        /\ upload.db = upload.snapshotSo

C38_Witness ==
    /\ UnknownActionRun
    /\ upload.pc = "done" /\ upload.ret = "none"
    /\ upload.hostNegotiateErr
    /\ upload.signed /\ upload.modified
    /\ upload.db # upload.snapshotSo
    /\ upload.sent = <<"UploadMerkleProof", "UploadHostRevisionSign", "HostAckMsg",
                       "HostNegotiateErrorMsg">>

\* A step changes the stored responsibility only by storing the updated copy
\* after the signature of the host was sent and ClientCommitSuccessMsg was
\* received, or by restoring the snapshot when the ACK could not be sent.
PersistStep ==
    upload'.db # upload.db =>
        \/ /\ upload.pc = "waitCommit" /\ upload'.pc = "ack"
           /\ upload.signed
           /\ upload.sent = <<"UploadMerkleProof", "UploadHostRevisionSign">>
           /\ upload'.recv = <<"ClientRevisionSign", "ClientCommitSuccessMsg">>
           /\ upload'.modified
           /\ upload'.db = upload.so
           /\ upload.so.SectorRoots = upload.db.SectorRoots \o upload.sectorsGained
           /\ upload.so.Revisions = upload.db.Revisions + 1
        \/ /\ upload.pc = "ack" /\ upload'.pc = "done"
           /\ upload.modified
           /\ upload'.ret = "SendHostAckMsg"
           /\ upload'.db = upload.snapshotSo

KeysAreDxPaths ==
    \A dxPath \in (1..NumPaths) :
        fileSet.filesMap[dxPath] # NoEntry =>
            fileSet.entries[fileSet.filesMap[dxPath]].path = dxPath

\* A Rename that returns ErrFileExist leaves filesMap unchanged
RenameExistStep ==
    (fileSet'.last.op = "Rename" /\ fileSet'.last.err = "ErrFileExist") =>
        fileSet'.filesMap = fileSet.filesMap

\* C40: after every sequence of NewDxFile, Open, Rename, Delete and Close,
\* a Rename whose file rename returns an error included, every key of
\* filesMap is the DxPath of its entry; and a Rename to a path that exists
\* returns ErrFileExist and leaves filesMap unchanged.
C40_KeysMatchDxPath ==
    /\ [][RenameExistStep]_vars
    /\ []KeysAreDxPaths

C40_Witness ==
    /\ fileSet.last.op = "Rename"
    /\ fileSet.last.err = "renameError"
    /\ \E dxPath \in (1..NumPaths) :
          /\ fileSet.filesMap[dxPath] # NoEntry
          /\ fileSet.entries[fileSet.filesMap[dxPath]].path # dxPath
          /\ fileSet.entries[fileSet.filesMap[dxPath]].threadMap = {}

====
